---- MODULE Spec2Model ----
(***************************************************************************)
(* A model of the bytecode virtual machine (src/src/vm.rs) and of the      *)
(* Pratt expression parser (src/src/parser.rs, src/src/operators.rs).      *)
(*                                                                         *)
(* The VM is modelled at the level of single instructions: one action per  *)
(* arm of the `match instr` in Frame::run.  The host recursion of          *)
(* Frame::run (a Call runs the callee's Frame::run to completion) is       *)
(* modelled by an explicit sequence of frames; the Result a callee hands   *)
(* back to its caller is `status` ("unwinding" carries an Err in `err`).   *)
(* Chunks are byte sequences: an opcode is a string, an operand a number   *)
(* 0..255, and `ip` is the 0-based byte offset as in the source.           *)
(*                                                                         *)
(* The runtime messages of the source are Arabic string literals; the      *)
(* model uses an ASCII rendering of each message.                          *)
(***************************************************************************)
EXTENDS Integers, Sequences, FiniteSets, TLC

VARIABLES
    status,          \* position of Vm::run: ready, running, unwinding, returned, done, error, panic
    functions,       \* the compiled program: function table (Function + Chunk); functions[1] is the script
    stack,           \* Vm.stack
    globals,         \* Vm.globals
    open_up_values,  \* Vm.open_up_values (cell ids, in list order)
    up_values,       \* heap of Rc<RefCell<UpValue>> cells, by id
    closures,        \* heap of Rc<Closure>, by id
    lists,           \* heap of Rc<RefCell<Vec<Value>>>, by id
    objects,         \* heap of Rc<RefCell<HashMap<String, Value>>>, by id
    frames,          \* the live Frame::Closure activations, outermost first
    err,             \* the (Value, Backtrace) of an Err result in flight
    reported,        \* the token Vm::run handed to reporter.error, if any
    written,         \* history: per upvalue cell, the value last written to its variable
    thrown,          \* history: the origin of the throw in flight
    ev,              \* history: what the last step did (call, return, catch, ...)
    tokens,          \* parser input: the token stream
    parsed,          \* parser output: the Result of parse_expr (src/src/parser.rs)
    ast              \* parser output: the Result of Parser::parse or parse_expr (src/قتام)

vmvars == <<status, functions, stack, globals, open_up_values, up_values, closures,
            lists, objects, frames, err, reported, written, thrown, ev>>
pvars == <<tokens, parsed, ast>>
vars == <<status, functions, stack, globals, open_up_values, up_values, closures,
          lists, objects, frames, err, reported, written, thrown, ev, tokens, parsed, ast>>

(***************************************************************************)
(* Bounds of the model.                                                    *)
(***************************************************************************)
MaxDepth == 3      \* nesting of calls below the script in the call programs
MaxArgc == 2       \* arguments and declared parameters in the call programs
MaxLen == 3        \* list length in the indexing programs
MaxIncs == 2       \* calls of the counter closure in the upvalue programs
MaxOps == 3        \* binary operators in a parsed expression
MaxChain == 3      \* binary operators of one level in a chain
MaxPostfix == 2    \* postfix forms after one operand

(***************************************************************************)
(* i32: the width of list indices (get_absolute_idx takes idx: i32).       *)
(***************************************************************************)
I32Max == 2147483647
I32Min == -I32Max - 1

(***************************************************************************)
(* Natural numbers of any size, for the 53-bit significands and the        *)
(* products, quotients and decimal expansions made of them: the sequence   *)
(* of the digits in base 2^15, the lowest first, the highest not zero.     *)
(***************************************************************************)
Max(a, b) == IF a >= b THEN a ELSE b
Min(a, b) == IF a <= b THEN a ELSE b
Base == 2^15
\* a without the zero digits above its highest digit that is not zero
BTrim(a) == SubSeq(a, 1, Cardinality({i \in 1..Len(a) : \E j \in i..Len(a) : a[j] # 0}))
BLimb(a, i) == IF 1 <= i /\ i <= Len(a) THEN a[i] ELSE 0
\* a natural below 2^31, and its value
BFromNat(n) == BTrim(<<n % Base, (n \div Base) % Base, n \div (Base * Base)>>)
BToNat(a) == BLimb(a, 1) + Base * (BLimb(a, 2) + Base * BLimb(a, 3))
\* a carry enters digit i: a digit below it makes one and the digits between pass it on
BCarry(a, b, i) ==
    \E j \in 1..(i - 1) :
        /\ BLimb(a, j) + BLimb(b, j) >= Base
        /\ \A k \in (j + 1)..(i - 1) : BLimb(a, k) + BLimb(b, k) = Base - 1
BAdd(a, b) ==
    BTrim([i \in 1..(Max(Len(a), Len(b)) + 1) |->
              (BLimb(a, i) + BLimb(b, i) + (IF BCarry(a, b, i) THEN 1 ELSE 0)) % Base])
BBorrow(a, b, i) ==
    \E j \in 1..(i - 1) :
        /\ BLimb(a, j) < BLimb(b, j)
        /\ \A k \in (j + 1)..(i - 1) : BLimb(a, k) = BLimb(b, k)
\* a - b for a >= b
BSub(a, b) ==
    BTrim([i \in 1..Len(a) |->
              (BLimb(a, i) - BLimb(b, i) - (IF BBorrow(a, b, i) THEN 1 ELSE 0) + Base) % Base])
\* -1, 0, 1 as a is below, equal to, above b
BCmp(a, b) ==
    IF Len(a) # Len(b) THEN (IF Len(a) < Len(b) THEN -1 ELSE 1)
    ELSE IF a = b THEN 0
    ELSE IF \E i \in 1..Len(a) : a[i] < b[i] /\ \A j \in (i + 1)..Len(a) : a[j] = b[j] THEN -1
    ELSE 1
\* a * k for k < 2^15: the low halves of the digit products, and the high halves
\* one digit up
BMulSmall(a, k) ==
    BAdd([i \in 1..Len(a) |-> (a[i] * k) % Base],
         <<0>> \o [i \in 1..Len(a) |-> (a[i] * k) \div Base])
\* a * b: the sum of a * b[i] * Base^(i - 1) for i in lo..hi
RECURSIVE BMulRange(_, _, _, _)
BMulRange(a, b, lo, hi) ==
    IF lo > hi THEN <<>>
    ELSE IF lo = hi THEN BTrim([i \in 1..(lo - 1) |-> 0] \o BMulSmall(a, b[lo]))
    ELSE BAdd(BMulRange(a, b, lo, (lo + hi) \div 2),
              BMulRange(a, b, ((lo + hi) \div 2) + 1, hi))
BMul(a, b) == BMulRange(a, b, 1, Len(b))
\* a * 2^k
BShl(a, k) ==
    IF a = <<>> THEN a
    ELSE [i \in 1..(k \div 15) |-> 0] \o BMulSmall(a, 2^(k % 15))
\* a \div 2^k
BShr(a, k) ==
    BTrim([i \in 1..Max(Len(a) - (k \div 15), 0) |->
              (BLimb(a, i + (k \div 15)) \div 2^(k % 15))
              + (BLimb(a, i + (k \div 15) + 1) % 2^(k % 15)) * 2^(15 - (k % 15))])
\* the number of bits of a
BBitLen(a) ==
    IF a = <<>> THEN 0
    ELSE 15 * (Len(a) - 1) + Cardinality({k \in 0..14 : 2^k <= a[Len(a)]})
\* bit i of a (bit 0 the lowest)
BTestBit(a, i) == (BLimb(a, (i \div 15) + 1) \div 2^(i % 15)) % 2
\* some bit of a below bit k is set
BLowBits(a, k) ==
    \/ \E j \in 1..(k \div 15) : BLimb(a, j) # 0
    \/ BLimb(a, (k \div 15) + 1) % 2^(k % 15) # 0
\* the number of zero bits below the lowest set bit of a # 0
BZeroLimbs(a) == Cardinality({i \in 1..Len(a) : \A j \in 1..i : a[j] = 0})
BTrailingZeros(a) ==
    15 * BZeroLimbs(a) + Cardinality({k \in 1..14 : a[BZeroLimbs(a) + 1] % 2^k = 0})
BPlusBit(a, bit) ==
    IF bit = 0 THEN a ELSE IF a = <<>> THEN <<1>> ELSE [a EXCEPT ![1] = @ + 1]
\* long division of a by b, the bits hi down to lo of a brought down one at a
\* time onto the quotient q and the remainder r < b of the bits above them
BDivModBit(b, q, r) ==
    IF BCmp(r, b) >= 0 THEN [q |-> BPlusBit(q, 1), r |-> BSub(r, b)] ELSE [q |-> q, r |-> r]
RECURSIVE BDivModBits(_, _, _, _, _)
RECURSIVE BDivModLow(_, _, _, _, _)
BDivModBits(a, b, lo, hi, qr) ==
    IF lo > hi THEN qr
    ELSE IF lo = hi
    THEN BDivModBit(b, BMulSmall(qr.q, 2), BPlusBit(BMulSmall(qr.r, 2), BTestBit(a, lo)))
    ELSE BDivModLow(a, b, lo, (lo + hi) \div 2,
                    BDivModBits(a, b, ((lo + hi) \div 2) + 1, hi, qr))
BDivModLow(a, b, lo, hi, qr) ==
    IF BCmp(qr.r, b) < 0 THEN BDivModBits(a, b, lo, hi, qr) ELSE qr
BDivMod(a, b) == BDivModBits(a, b, 0, BBitLen(a) - 1, [q |-> <<>>, r |-> <<>>])

(***************************************************************************)
(* Values (value::Value).  One record shape for every variant: `t` the     *)
(* tag, `n` the number / bool (0,1) / heap id, `s` the string contents.    *)
(* A number is an f64.  One that is an i32 is Number(n): d = 1 and n the   *)
(* integer.  d = -1 (n = 0) is the negative zero, d = 0 an infinity        *)
(* (n = 1, -1) or NaN (n = 0).  Every other f64 is Double(sign, m, e),     *)
(* d = 2: the value sign * m * 2^e with sign = n in {1, -1}, m an odd      *)
(* significand of 53 bits at most and e from -1074 to 1023.  Each f64 has  *)
(* one form, so two numbers are the same record iff they are the same f64  *)
(* (NaN the one exception of ==).                                          *)
(***************************************************************************)
Float(n, d) == [t |-> "number", n |-> n, d |-> d, s |-> "", m |-> <<>>, e |-> 0]
Number(n) == Float(n, 1)
Double(sign, m, e) == [t |-> "number", n |-> sign, d |-> 2, s |-> "", m |-> m, e |-> e]
Bool(b) == [t |-> "bool", n |-> IF b THEN 1 ELSE 0, d |-> 1, s |-> "", m |-> <<>>, e |-> 0]
Nil == [t |-> "nil", n |-> 0, d |-> 1, s |-> "", m |-> <<>>, e |-> 0]
String(s) == [t |-> "string", n |-> 0, d |-> 1, s |-> s, m |-> <<>>, e |-> 0]
List(id) == [t |-> "list", n |-> id, d |-> 1, s |-> "", m |-> <<>>, e |-> 0]
ClosureValue(id) == [t |-> "closure", n |-> id, d |-> 1, s |-> "", m |-> <<>>, e |-> 0]
NativeValue(name) == [t |-> "native", n |-> 0, d |-> 1, s |-> name, m |-> <<>>, e |-> 0]
FunctionValue(id) == [t |-> "function", n |-> id, d |-> 1, s |-> "", m |-> <<>>, e |-> 0]
ObjectValue(id) == [t |-> "object", n |-> id, d |-> 1, s |-> "", m |-> <<>>, e |-> 0]

is_number(v) == v.t = "number"
is_string(v) == v.t = "string"
\* Value::is_int: a number with zero fractional part
is_int(v) == v.t = "number" /\ (v.d \in {1, -1} \/ (v.d = 2 /\ v.e >= 0))
\* Value::as_int: `n as i32`, the cast of Rust: toward zero, an integer beyond
\* i32 to the nearest end of the range, NaN to 0
as_int(v) ==
    IF v.d \in {1, -1} THEN v.n
    ELSE IF v.d = 0 THEN (IF v.n > 0 THEN I32Max ELSE IF v.n < 0 THEN I32Min ELSE 0)
    ELSE IF v.e >= 0 \/ BBitLen(v.m) + v.e > 31 THEN (IF v.n > 0 THEN I32Max ELSE I32Min)
    ELSE v.n * BToNat(BShr(v.m, -v.e))
are_subtractable(a, b) == is_number(a) /\ is_number(b)
are_multipliable(a, b) == is_number(a) /\ is_number(b)
are_dividable(a, b) == is_number(a) /\ is_number(b)
are_remainderable(a, b) == is_number(a) /\ is_number(b)
are_numbers(a, b) == is_number(a) /\ is_number(b)
\* Value::is_truthy: false and nil are falsy, every other value is truthy
is_truthy(v) == v.t # "nil" /\ ~(v.t = "bool" /\ v.n = 0)

(***************************************************************************)
(* f64 arithmetic (the std::ops impls of value.rs apply the f64 operators  *)
(* to two numbers): the exact result, rounded to the nearest value with a  *)
(* 53-bit significand and an exponent of binary64, ties to the even one.   *)
(***************************************************************************)
NaN == Float(0, 0)
Inf(sign) == Float(sign, 0)
Zero(sign) == Float(0, sign)
IsNaN(x) == x.n = 0 /\ x.d = 0
IsInf(x) == x.n # 0 /\ x.d = 0
IsZero(x) == x.n = 0 /\ x.d \in {1, -1}
Sign(x) ==
    IF x.d \in {0, 2} THEN (IF x.n < 0 THEN -1 ELSE 1)
    ELSE IF x.n < 0 \/ x.d < 0 THEN -1 ELSE 1
\* |x| = Mantissa(x) * 2^Exponent(x) for a finite x
Mantissa(x) ==
    IF x.d = 2 THEN x.m
    ELSE IF x.n = I32Min THEN <<0, 0, 2>>
    ELSE BFromNat(IF x.n < 0 THEN -x.n ELSE x.n)
Exponent(x) == IF x.d = 2 THEN x.e ELSE 0
\* the value sign * m * 2^e (m odd), in the one form the model gives it
Odd(sign, m, e) ==
    IF e >= 0 /\ BBitLen(m) + e <= 31 THEN Number(sign * BToNat(BShl(m, e)))
    ELSE IF sign < 0 /\ m = <<1>> /\ e = 31 THEN Number(I32Min)
    ELSE Double(sign, m, e)
Exact(sign, m, e) == Odd(sign, BShr(m, BTrailingZeros(m)), e + BTrailingZeros(m))
\* m \div 2^k, rounded to the nearest, a tie to the even one
RoundShr(m, k) ==
    IF BTestBit(m, k - 1) = 1 /\ (BLowBits(m, k - 1) \/ BTestBit(m, k) = 1)
    THEN BAdd(BShr(m, k), <<1>>)
    ELSE BShr(m, k)
Rounded(sign, m, e) ==
    IF m = <<>> THEN Zero(sign)
    ELSE IF BBitLen(m) + e > 1024 THEN Inf(sign)
    ELSE Exact(sign, m, e)
\* the f64 nearest to sign * m * 2^e: the lowest bit kept is bit `quantum`, 53
\* bits below the highest, and no lower than 2^-1074
RoundAt(sign, m, e, quantum) ==
    IF quantum <= e THEN Rounded(sign, m, e)
    ELSE Rounded(sign, RoundShr(m, quantum - e), quantum)
Round(sign, m, e) ==
    IF m = <<>> THEN Zero(sign)
    ELSE RoundAt(sign, m, e, Max(e + BBitLen(m) - 53, -(1022 + 52)))

NumNeg(x) ==
    IF IsNaN(x) THEN x
    ELSE IF IsInf(x) THEN Inf(-x.n)
    ELSE IF IsZero(x) THEN Zero(-x.d)
    ELSE Exact(-Sign(x), Mantissa(x), Exponent(x))

\* the two magnitudes as multiples of 2^e
AddAligned(sa, a, sb, b, e) ==
    IF sa = sb THEN Round(sa, BAdd(a, b), e)
    ELSE IF BCmp(a, b) = 0 THEN Zero(1)
    ELSE IF BCmp(a, b) > 0 THEN Round(sa, BSub(a, b), e)
    ELSE Round(sb, BSub(b, a), e)
AlignedTo(x, e) == BShl(Mantissa(x), Exponent(x) - e)

\* a + b: inf + -inf is NaN; a zero sum is +0 unless both operands are -0
NumAdd(a, b) ==
    IF IsNaN(a) \/ IsNaN(b) \/ (IsInf(a) /\ IsInf(b) /\ a.n # b.n) THEN NaN
    ELSE IF IsInf(a) THEN a
    ELSE IF IsInf(b) THEN b
    ELSE IF IsZero(a) /\ IsZero(b) THEN Zero(IF a.d < 0 /\ b.d < 0 THEN -1 ELSE 1)
    ELSE IF IsZero(a) THEN b
    ELSE IF IsZero(b) THEN a
    ELSE AddAligned(Sign(a), AlignedTo(a, Min(Exponent(a), Exponent(b))),
                    Sign(b), AlignedTo(b, Min(Exponent(a), Exponent(b))),
                    Min(Exponent(a), Exponent(b)))

NumSub(a, b) == NumAdd(a, NumNeg(b))

\* a * b: the sign is the product of the signs; inf * 0 is NaN
NumMul(a, b) ==
    IF IsNaN(a) \/ IsNaN(b) \/ (IsInf(a) /\ IsZero(b)) \/ (IsZero(a) /\ IsInf(b)) THEN NaN
    ELSE IF IsInf(a) \/ IsInf(b) THEN Inf(Sign(a) * Sign(b))
    ELSE IF IsZero(a) \/ IsZero(b) THEN Zero(Sign(a) * Sign(b))
    ELSE Round(Sign(a) * Sign(b), BMul(Mantissa(a), Mantissa(b)), Exponent(a) + Exponent(b))

\* the quotient of ma * 2^k by mb has 56 bits or more: twice it, plus one for a
\* remainder, rounds as the exact quotient does
DivRound(sign, qr, e) ==
    Round(sign, BPlusBit(BMulSmall(qr.q, 2), IF qr.r = <<>> THEN 0 ELSE 1), e)
DivShifted(sign, ma, ea, mb, eb, k) ==
    DivRound(sign, BDivMod(BShl(ma, k), mb), ea - eb - k - 1)

\* a / b: 0 / 0 and inf / inf are NaN, x / 0 is an infinity, x / inf a zero
NumDiv(a, b) ==
    IF IsNaN(a) \/ IsNaN(b) \/ (IsZero(a) /\ IsZero(b)) \/ (IsInf(a) /\ IsInf(b)) THEN NaN
    ELSE IF IsInf(a) \/ IsZero(b) THEN Inf(Sign(a) * Sign(b))
    ELSE IF IsZero(a) \/ IsInf(b) THEN Zero(Sign(a) * Sign(b))
    ELSE DivShifted(Sign(a) * Sign(b), Mantissa(a), Exponent(a), Mantissa(b), Exponent(b),
                    Max(0, 56 + BBitLen(Mantissa(b)) - BBitLen(Mantissa(a))))

\* a % b (fmod): the remainder of the truncated division, exact, with the sign
\* of a; x % 0 and inf % x are NaN, x % inf is x
NumRem(a, b) ==
    IF IsNaN(a) \/ IsNaN(b) \/ IsInf(a) \/ IsZero(b) THEN NaN
    ELSE IF IsInf(b) \/ IsZero(a) THEN a
    ELSE Round(Sign(a),
               BDivMod(AlignedTo(a, Min(Exponent(a), Exponent(b))),
                       AlignedTo(b, Min(Exponent(a), Exponent(b)))).r,
               Min(Exponent(a), Exponent(b)))

\* -1, 0, 1: the order of two finite values
FiniteSign(x) == IF IsZero(x) THEN 0 ELSE Sign(x)
FiniteCmp(a, b) ==
    IF FiniteSign(a) # FiniteSign(b) THEN (IF FiniteSign(a) < FiniteSign(b) THEN -1 ELSE 1)
    ELSE IF FiniteSign(a) = 0 THEN 0
    ELSE FiniteSign(a) * BCmp(AlignedTo(a, Min(Exponent(a), Exponent(b))),
                              AlignedTo(b, Min(Exponent(a), Exponent(b))))

\* a < b: false if either is NaN; the two zeros are equal
NumLess(a, b) ==
    /\ ~IsNaN(a) /\ ~IsNaN(b)
    /\ IF IsInf(a) THEN a.n < 0 /\ ~(IsInf(b) /\ b.n < 0)
       ELSE IF IsInf(b) THEN b.n > 0
       ELSE FiniteCmp(a, b) < 0

NumEqual(a, b) == ~IsNaN(a) /\ ~IsNaN(b) /\ ~NumLess(a, b) /\ ~NumLess(b, a)

\* PartialEq for Value: numbers by f64 ==, strings by contents, the other heap
\* objects by reference
ValueEqual(a, b) == IF is_number(a) /\ is_number(b) THEN NumEqual(a, b) ELSE a = b

\* Not for Value: the negation of the value's truthiness
ValueNot(v) == Bool(~is_truthy(v))
(***************************************************************************)
(* Display for f64 (core::fmt, flt2dec): the shortest decimal digits that  *)
(* read back as the same f64, the nearest to its value among them, written *)
(* without an exponent.                                                    *)
(***************************************************************************)
Digits == <<"0", "1", "2", "3", "4", "5", "6", "7", "8", "9">>
RECURSIVE NatToString(_)
NatToString(n) == IF n < 10 THEN Digits[n + 1] ELSE NatToString(n \div 10) \o Digits[(n % 10) + 1]
\* flt2dec::decode: the value mant * 2^exp and the gaps minus * 2^exp and
\* plus * 2^exp to the midpoints with its neighbours, for the significand m * 2^e
\* of bit length len
decode(m, e, len) ==
    IF e + len - 1 < -1022
    THEN [mant |-> BShl(m, e + 1075), minus |-> <<1>>, plus |-> <<1>>, exp |-> -1075,
          inclusive |-> TRUE]
    ELSE IF m = <<1>>
    THEN [mant |-> BShl(m, 54), minus |-> <<1>>, plus |-> <<2>>, exp |-> e - 54,
          inclusive |-> TRUE]
    ELSE [mant |-> BShl(m, 54 - len), minus |-> <<1>>, plus |-> <<1>>, exp |-> e - (54 - len),
          inclusive |-> len < 53]
\* the tests of format_shortest: the digits so far are within the gap below
\* (down), one more unit of the last digit is within the gap above (up)
RoundsDown(mant, minus, inclusive) ==
    IF inclusive THEN BCmp(mant, minus) <= 0 ELSE BCmp(mant, minus) < 0
RoundsUp(mant, plus, scale, inclusive) ==
    IF inclusive THEN BCmp(scale, BAdd(mant, plus)) <= 0 ELSE BCmp(scale, BAdd(mant, plus)) < 0
\* round_up: one more unit in the last place of a digit string
RECURSIVE round_up(_)
round_up(digits) ==
    IF digits = <<>> THEN <<>>
    ELSE IF digits[Len(digits)] = 9 THEN Append(round_up(SubSeq(digits, 1, Len(digits) - 1)), 0)
    ELSE [digits EXCEPT ![Len(digits)] = @ + 1]
\* ... of nines only: round_up gives 1 and zeros, a zero is appended and k grows
Shortest(digits, k, up) ==
    IF ~up THEN [digits |-> digits, k |-> k]
    ELSE IF \A i \in 1..Len(digits) : digits[i] = 9
    THEN [digits |-> <<1>> \o [i \in 1..Len(digits) |-> 0], k |-> k + 1]
    ELSE [digits |-> round_up(digits), k |-> k]
\* estimate_scaling_factor: ((nbits + exp) * 1292913986) >> 32, the multiplier
\* in two 16-bit halves, for a mant of `nbits` bits
estimate_scaling_factor(nbits, exp) ==
    ((nbits + exp) * 19728 + ((nbits + exp) * 19778) \div 2^16) \div 2^16
BSquare(a) == BMul(a, a)
RECURSIVE Pow10(_)
Pow10(k) ==
    IF k = 0 THEN <<1>>
    ELSE IF k % 2 = 0 THEN BSquare(Pow10(k \div 2))
    ELSE BMulSmall(Pow10(k - 1), 10)
\* the next digit, mant \div scale (below 10)
Digit(mant, scale) == Cardinality({j \in 1..9 : BCmp(BMulSmall(scale, j), mant) <= 0})
\* strategy::dragon::format_shortest: the value is mant / scale * 10^k; a digit
\* at a time until the digits so far read back as the value
RECURSIVE format_digits(_, _, _, _, _, _, _)
RECURSIVE format_digit(_, _, _, _, _, _, _)
format_digits(mant, minus, plus, scale, inclusive, k, digits) ==
    format_digit(BSub(mant, BMulSmall(scale, Digit(mant, scale))), minus, plus, scale,
                 inclusive, k, Append(digits, Digit(mant, scale)))
format_digit(mant, minus, plus, scale, inclusive, k, digits) ==
    IF RoundsDown(mant, minus, inclusive) \/ RoundsUp(mant, plus, scale, inclusive)
    THEN Shortest(digits, k,
                  /\ RoundsUp(mant, plus, scale, inclusive)
                  /\ (~RoundsDown(mant, minus, inclusive)
                      \/ BCmp(BMulSmall(mant, 2), scale) >= 0))
    ELSE format_digits(BMulSmall(mant, 10), BMulSmall(minus, 10), BMulSmall(plus, 10), scale,
                       inclusive, k, digits)
\* ... the fixup of the estimate: k + 1 if mant + plus reaches scale
format_fixup(mant, minus, plus, scale, inclusive, k) ==
    IF RoundsUp(mant, plus, scale, inclusive)
    THEN format_digits(mant, minus, plus, scale, inclusive, k + 1, <<>>)
    ELSE format_digits(BMulSmall(mant, 10), BMulSmall(minus, 10), BMulSmall(plus, 10), scale,
                       inclusive, k, <<>>)
\* ... mant, minus, plus and scale as naturals: 2^exp and 10^k multiplied in
format_scaled(mant, minus, plus, scale, inclusive, k) ==
    IF k >= 0
    THEN format_fixup(mant, minus, plus, BMul(scale, Pow10(k)), inclusive, k)
    ELSE format_fixup(BMul(mant, Pow10(-k)), BMul(minus, Pow10(-k)), BMul(plus, Pow10(-k)),
                      scale, inclusive, k)
format_estimated(d, k) ==
    IF d.exp < 0
    THEN format_scaled(d.mant, d.minus, d.plus, BShl(<<1>>, -d.exp), d.inclusive, k)
    ELSE format_scaled(BShl(d.mant, d.exp), BShl(d.minus, d.exp), BShl(d.plus, d.exp), <<1>>,
                       d.inclusive, k)
format_shortest(d) ==
    format_estimated(d, estimate_scaling_factor(
                            BBitLen(BSub(BAdd(d.mant, d.plus), <<1>>)), d.exp))
RECURSIVE DigitString(_)
DigitString(digits) ==
    IF digits = <<>> THEN "" ELSE Digits[Head(digits) + 1] \o DigitString(Tail(digits))
RECURSIVE ZeroString(_)
ZeroString(n) ==
    IF n <= 0 THEN "" ELSE IF n = 1 THEN "0"
    ELSE ZeroString(n \div 2) \o ZeroString(n - (n \div 2))
\* flt2dec::digits_to_dec_str with no fractional digits asked for: 0.000ddd,
\* dd.ddd or ddd000
digits_to_dec_str(digits, k) ==
    IF k <= 0 THEN "0." \o ZeroString(-k) \o DigitString(digits)
    ELSE IF k < Len(digits)
    THEN DigitString(SubSeq(digits, 1, k)) \o "." \o DigitString(SubSeq(digits, k + 1, Len(digits)))
    ELSE DigitString(digits) \o ZeroString(k - Len(digits))
ShortestString(r) == digits_to_dec_str(r.digits, r.k)
FiniteString(m, e) == ShortestString(format_shortest(decode(m, e, BBitLen(m))))
\* Display for f64
NumberToString(x) ==
    IF IsNaN(x) THEN "NaN"
    ELSE (IF Sign(x) < 0 THEN "-" ELSE "")
         \o (IF IsInf(x) THEN "inf"
             ELSE IF IsZero(x) THEN "0"
             ELSE FiniteString(BShr(Mantissa(x), BTrailingZeros(Mantissa(x))),
                               Exponent(x) + BTrailingZeros(Mantissa(x))))

\* Display for Value (Value::to_string): Display of f64 for a number, the
\* contents for a string, a word for the other variants
to_string(v) ==
    CASE v.t = "string" -> v.s
      [] v.t = "native" -> v.s
      [] v.t = "number" -> NumberToString(v)
      [] v.t = "bool" -> IF v.n = 1 THEN "true" ELSE "false"
      [] OTHER -> v.t

(***************************************************************************)
(* Arity and Vm::check_arity.                                              *)
(***************************************************************************)
Fixed(n) == [kind |-> "Fixed", n |-> n]
Variadic(n) == [kind |-> "Variadic", n |-> n]

\* the Result: Ok(()) or Err(Value::new_string(format!(..))), the message made
\* of the two numbers; the one for Fixed differs from the one for Variadic
ArityOk == [r |-> "Ok", value |-> Nil]
ArityErr(msg) == [r |-> "Err", value |-> String(msg)]

check_arity_fixed_off(arity, argc) ==
    IF arity.kind = "Fixed"
    THEN (IF argc < arity.n
          THEN ArityErr("expected " \o NatToString(arity.n) \o " arguments but got "
                        \o NatToString(argc) \o " insteadd")
          ELSE ArityOk)
    ELSE (IF argc < arity.n
          THEN ArityErr("expected at least " \o NatToString(arity.n) \o " arguments but got "
                        \o NatToString(argc) \o " instead")
          ELSE ArityOk)

check_arity(arity, argc) ==
    IF arity.kind = "Fixed"
    THEN (IF argc # arity.n
          THEN ArityErr("expected " \o NatToString(arity.n) \o " arguments but got "
                        \o NatToString(argc) \o " insteadd")
          ELSE ArityOk)
    ELSE (IF argc < arity.n
          THEN ArityErr("expected at least " \o NatToString(arity.n) \o " arguments but got "
                        \o NatToString(argc) \o " instead")
          ELSE ArityOk)

(***************************************************************************)
(* get_absolute_idx (nested fn of Frame::run).  i32 arithmetic: `-idx`     *)
(* overflows for idx = i32::MIN (a panic in a debug build; in a release    *)
(* build it wraps to i32::MIN, the test `-idx > len` is false and the      *)
(* result (len + idx) as usize is far beyond the list, so the indexing     *)
(* that follows panics).  Both builds end in a panic: "Panic".             *)
(***************************************************************************)
get_absolute_idx(idx, len) ==
    IF idx >= 0
    THEN (IF idx >= len THEN [r |-> "Err", i |-> 0] ELSE [r |-> "Ok", i |-> idx])
    ELSE IF idx = I32Min THEN [r |-> "Panic", i |-> 0]
    ELSE IF -idx > len THEN [r |-> "Err", i |-> 0]
    ELSE [r |-> "Ok", i |-> len + idx]

(***************************************************************************)
(* The constant pool.  The model gives every chunk of a program the same   *)
(* pool: the values the programs below load with Constant8.                *)
(***************************************************************************)
NumLo == -(MaxLen + 3)
NumHi == MaxLen + 10
Pool ==
    <<Nil, String("boom"), String("nope"), String("size"), String("ab"), String("g"),
      String("a"), String("b"), Number(I32Min), Number(I32Min + 1), Number(I32Max)>>
    \o [i \in 1..(MaxDepth + 6) |-> FunctionValue(i)]
    \o [i \in 1..(NumHi - NumLo + 1) |-> Number(NumLo + i - 1)]
    \o <<Bool(TRUE), Bool(FALSE)>>

(***************************************************************************)
(* Chunk access (Frame::cur_instr, read_byte, read_2bytes, cur_token).     *)
(***************************************************************************)
Cur == frames[Len(frames)]
get_closure(f) == closures[f.closure]
get_chunk(f) == functions[get_closure(f).function].code
cur_instr == IF Cur.ip < Len(get_chunk(Cur)) THEN get_chunk(Cur)[Cur.ip + 1] ELSE "None"
read_byte == get_chunk(Cur)[Cur.ip + 2]
\* utils::combine: the two operand bytes, little-endian
combine(a, b) == a + 256 * b
read_2bytes == combine(get_chunk(Cur)[Cur.ip + 2], get_chunk(Cur)[Cur.ip + 3])
\* Chunk::get_constant
get_constant(i) == Pool[i + 1]
\* Chunk::get_token: the token of the instruction at `ip` of the frame's function
cur_token(f) == [fn |-> get_closure(f).function, ip |-> f.ip]
\* BacktraceFrame::new
BacktraceFrame_of_script(f) ==
    [token |-> cur_token(frames[1]), name |-> functions[get_closure(frames[1]).function].name]

BacktraceFrame(f) == [token |-> cur_token(f), name |-> functions[get_closure(f).function].name]

NoErr == [value |-> Nil, backtrace |-> <<>>]
NoToken == [fn |-> 0, ip |-> 0]
NoThrown == [site |-> NoToken, k |-> -1, depth |-> 0, expected |-> <<>>, vm |-> FALSE]
\* history of a Get or Set: the instruction, the container, key and value it was given,
\* and the lists and objects before it
NoIndex == [op |-> "", obj |-> Nil, key |-> Nil, val |-> Nil, lists |-> <<>>, objects |-> <<>>]
\* history of a binary arithmetic instruction: the instruction and its operands
NoArith == [op |-> "", a |-> Nil, b |-> Nil]
\* history of a global instruction: the instruction, the name, the value it
\* binds and the global table before it
NoGlob == [op |-> "", name |-> "", value |-> Nil, before |-> <<>>]
\* history of a step that shrinks the stack to `cut` values (before the pushed
\* result): the stack, the cells and the open list before the step
NoShrink == [cut |-> -1, stk |-> <<>>, cells |-> <<>>, opens |-> <<>>]
\* history of an assigning instruction: the instruction, the stack before it and
\* the slot (SetLocal) or cell (SetUpValue) it writes
NoAssign == [op |-> "", stk |-> <<>>, target |-> 0]
NoEv == [kind |-> "none", argc |-> 0, pre |-> 0, k |-> 0, entries |-> 0, saved |-> 0,
         cell |-> 0, slot |-> 0, flag |-> FALSE, depth |-> 0, ip |-> 0,
         op |-> "", key |-> 0, id |-> 0, items |-> <<>>, val |-> Nil, arity |-> Fixed(0),
         index |-> NoIndex, arith |-> NoArith, glob |-> NoGlob,
         hs |-> <<>>, stk |-> <<>>, frame |-> 0, caps |-> <<>>,
         shrink |-> NoShrink, at |-> "", operand |-> 0,
         assign |-> NoAssign]

\* Frame::string_to_err
string_to_err(msg) == [value |-> String(msg), backtrace |-> <<BacktraceFrame(Cur)>>]

\* Frame::new_closure; `argc` is the parameter of Frame::run, `pre` (history)
\* the operand stack depth when the Call was fetched
new_closure_inherits(closure, slots, enclosing, argc, pre) ==
    [closure |-> closure, ip |-> 0, slots |-> slots, enclosing |-> enclosing,
     handlers |-> IF frames = <<>> THEN <<>> ELSE frames[Len(frames)].handlers,
     argc |-> argc, pre |-> pre]

new_closure(closure, slots, enclosing, argc, pre) ==
    [closure |-> closure, ip |-> 0, slots |-> slots, enclosing |-> enclosing,
     handlers |-> <<>>, argc |-> argc, pre |-> pre]

Front(s) == SubSeq(s, 1, Len(s) - 1)
Last(s) == s[Len(s)]
Step(n) == [frames EXCEPT ![Len(frames)].ip = @ + n]
Fetch(op) == status = "running" /\ frames # <<>> /\ cur_instr = op

(***************************************************************************)
(* Upvalue cells.  An Open cell holds a stack index (0-based, as in the    *)
(* source); a Closed cell owns a value.                                    *)
(***************************************************************************)
Open(idx) == [open |-> TRUE, idx |-> idx, val |-> Nil]
Closed(v) == [open |-> FALSE, idx |-> 0, val |-> v]

\* Vm::get_up_value: the first cell of the open list pointing at stack index idx,
\* 0 (None) if there is none
get_up_value_never(opens, cells, idx) == 0

get_up_value(opens, cells, idx) ==
    LET hits == {i \in 1..Len(opens) : cells[opens[i]].idx = idx}
    IN IF hits = {} THEN 0
       ELSE opens[CHOOSE i \in hits : \A j \in hits : i <= j]

\* Vm::close_up_values: the cells after closing every open cell at or above
\* `location` with the value its slot holds in the stack `stk` of the moment
close_up_values_above(stk, location) ==
    [c \in DOMAIN up_values |->
        IF (\E i \in 1..Len(open_up_values) : open_up_values[i] = c)
           /\ up_values[c].idx > location
        THEN Closed(stk[up_values[c].idx + 1])
        ELSE up_values[c]]

close_up_values(stk, location) ==
    [c \in DOMAIN up_values |->
        IF (\E i \in 1..Len(open_up_values) : open_up_values[i] = c)
           /\ up_values[c].idx >= location
        THEN Closed(stk[up_values[c].idx + 1])
        ELSE up_values[c]]

\* ... its `self.stack.get(idx).unwrap()`: every cell it closes points into `stk`
closable(stk, location) ==
    \A i \in 1..Len(open_up_values) :
        up_values[open_up_values[i]].idx >= location
            => up_values[open_up_values[i]].idx < Len(stk)

\* ... and the open list it leaves: the cells below `location`, in order
still_open_everything(location) == open_up_values

still_open(location) ==
    SelectSeq(open_up_values, LAMBDA c : up_values[c].idx < location)

Assigning(op, target) == [op |-> op, stk |-> stack, target |-> target]
Shrunk(cut) == [cut |-> cut, stk |-> stack, cells |-> up_values, opens |-> open_up_values]

\* Frame::truncate (its Vec::truncate half): the first `len` values of the stack
truncate_keep_one_more(stk, len) ==
    SubSeq(stk, 1, IF len + 1 < Len(stk) THEN len + 1 ELSE Len(stk))

truncate(stk, len) == SubSeq(stk, 1, IF len < Len(stk) THEN len ELSE Len(stk))

(***************************************************************************)
(* The three ways an instruction ends: the loop goes on at ip + progress,  *)
(* the frame returns Err(string_to_err(..)), or the host panics.           *)
(***************************************************************************)
\* distance from the innermost frame to the nearest frame holding a handler
NearestHandler(fs) ==
    LET hs == {i \in 1..Len(fs) : fs[i].handlers # <<>>}
    IN IF hs = {} THEN -1 ELSE Len(fs) - (CHOOSE i \in hs : \A j \in hs : j <= i)

\* the backtrace an uncaught throw from the innermost frame would build
ExpectedBacktrace(fs) == [i \in 1..Len(fs) |-> BacktraceFrame(fs[Len(fs) + 1 - i])]

ThrownHere(isvm) ==
    [site |-> cur_token(Cur), k |-> NearestHandler(frames), depth |-> Len(frames),
     expected |-> ExpectedBacktrace(frames), vm |-> isvm]

ContinueEv(stk, progress, e) ==
    /\ stack' = stk
    /\ frames' = Step(progress)
    /\ ev' = e
    /\ UNCHANGED <<status, err, thrown>>

Continue(stk, progress) == ContinueEv(stk, progress, NoEv)

\* return Err(self.string_to_err(msg)): the frame is left, its caller gets the Err
RaiseEv(msg, stk, e) ==
    /\ stack' = stk
    /\ frames' = Front(frames)
    /\ status' = "unwinding"
    /\ err' = string_to_err(msg)
    /\ thrown' = ThrownHere(TRUE)
    /\ ev' = [e EXCEPT !.kind = "vmerror", !.flag = (Cur.handlers # <<>>),
                       !.depth = Len(frames),
                       !.saved = IF Cur.handlers # <<>> THEN Last(Cur.handlers).slots ELSE 0,
                       !.ip = IF Cur.handlers # <<>> THEN Last(Cur.handlers).ip ELSE 0]

Raise(msg, stk) == RaiseEv(msg, stk, NoEv)

\* an arithmetic overflow or an out-of-bounds index in the host: the process aborts
PanicEv(e) ==
    /\ status' = "panic"
    /\ ev' = e
    /\ UNCHANGED <<stack, frames, err, thrown>>

Panic == PanicEv(NoEv)

\* the unwrap of Vec::pop, Vec::last or get_byte on a None, or an index beyond
\* the stack, the constants or the closure's cells: the arm `at` asks for a
\* value or an operand byte that is not there, and the host panics
Missing(at) == PanicEv([NoEv EXCEPT !.kind = "missing", !.at = at])
\* the `k` operand bytes behind the instruction are in the chunk
HasOperands(k) == Cur.ip + k < Len(get_chunk(Cur))
\* the names of Instruction, Unknown aside
Instructions ==
    {"Pop", "Constant8", "Constant16", "Negate", "Add", "Subtract", "Multiply", "Divide",
     "Remainder", "Not", "Equal", "Greater", "GreaterEqual", "Less", "LessEqual", "Jump",
     "JumpIfFalse", "JumpIfTrue", "Loop", "DefineGlobal", "SetGlobal", "GetGlobal", "GetLocal",
     "SetLocal", "BuildList", "BuildObject", "Get", "Set", "Closure", "Call", "GetUpValue",
     "SetUpValue", "CloseUpValue", "Return", "AppendHandler", "PopHandler", "Throw"}

\* the `Some(Handler { slots, ip })` arm of Throw and of Call's Err branch:
\* truncate(slots) on the stack `stk` left by the arm so far, push(value), resume at
\* the handler's ip.  `progress = (ip - self.get_ip()) as i32` subtracts two usize:
\* for a handler behind the instruction a build with overflow checks panics, the
\* stack already cut and the value pushed, and a build without them wraps to the
\* handler's ip
Resume_outermost(value, stk, entries, origin) ==
    LET h == Head(Cur.handlers)
        kept == truncate(stk, h.slots)
    IN IF ~closable(stk, h.slots)
       THEN PanicEv([NoEv EXCEPT !.kind = "catchunwrap", !.shrink = Shrunk(h.slots),
                                 !.stk = stk, !.at = cur_instr, !.hs = Cur.handlers,
                                 !.saved = h.slots, !.ip = h.ip])
            /\ UNCHANGED <<up_values, open_up_values>>
       ELSE \/ /\ up_values' = close_up_values(stk, h.slots)
               /\ open_up_values' = still_open(h.slots)
               /\ stack' = Append(kept, value)
               /\ frames' = [frames EXCEPT ![Len(frames)].handlers = Tail(@),
                                           ![Len(frames)].ip = h.ip]
               /\ status' = "running"
               /\ err' = NoErr
               /\ thrown' = NoThrown
               /\ ev' = [NoEv EXCEPT !.kind = "catch", !.k = origin.k, !.entries = entries,
                                !.saved = h.slots, !.depth = origin.depth, !.ip = h.ip,
                                !.flag = origin.vm, !.hs = Cur.handlers, !.stk = stack,
                                !.frame = Len(frames), !.val = value, !.at = cur_instr,
                                !.shrink = Shrunk(h.slots),
                                !.operand = IF cur_instr = "Call" THEN read_byte ELSE 0]
            \/ /\ h.ip < Cur.ip
               /\ up_values' = close_up_values(stk, h.slots)
               /\ open_up_values' = still_open(h.slots)
               /\ stack' = Append(kept, value)
               /\ frames' = [frames EXCEPT ![Len(frames)].handlers = Tail(@)]
               /\ status' = "panic"
               /\ ev' = [NoEv EXCEPT !.kind = "overflow", !.ip = h.ip, !.hs = Cur.handlers,
                                     !.frame = Len(frames), !.at = cur_instr,
                                     !.saved = h.slots]
               /\ UNCHANGED <<err, thrown>>

Resume(value, stk, entries, origin) ==
    LET h == Last(Cur.handlers)
        kept == truncate(stk, h.slots)
    IN IF ~closable(stk, h.slots)
       THEN PanicEv([NoEv EXCEPT !.kind = "catchunwrap", !.shrink = Shrunk(h.slots),
                                 !.stk = stk, !.at = cur_instr, !.hs = Cur.handlers,
                                 !.saved = h.slots, !.ip = h.ip])
            /\ UNCHANGED <<up_values, open_up_values>>
       ELSE \/ /\ up_values' = close_up_values(stk, h.slots)
               /\ open_up_values' = still_open(h.slots)
               /\ stack' = Append(kept, value)
               /\ frames' = [frames EXCEPT ![Len(frames)].handlers = Front(@),
                                           ![Len(frames)].ip = h.ip]
               /\ status' = "running"
               /\ err' = NoErr
               /\ thrown' = NoThrown
               /\ ev' = [NoEv EXCEPT !.kind = "catch", !.k = origin.k, !.entries = entries,
                                !.saved = h.slots, !.depth = origin.depth, !.ip = h.ip,
                                !.flag = origin.vm, !.hs = Cur.handlers, !.stk = stack,
                                !.frame = Len(frames), !.val = value, !.at = cur_instr,
                                !.shrink = Shrunk(h.slots),
                                !.operand = IF cur_instr = "Call" THEN read_byte ELSE 0]
            \/ /\ h.ip < Cur.ip
               /\ up_values' = close_up_values(stk, h.slots)
               /\ open_up_values' = still_open(h.slots)
               /\ stack' = Append(kept, value)
               /\ frames' = [frames EXCEPT ![Len(frames)].handlers = Front(@)]
               /\ status' = "panic"
               /\ ev' = [NoEv EXCEPT !.kind = "overflow", !.ip = h.ip, !.hs = Cur.handlers,
                                     !.frame = Len(frames), !.at = cur_instr,
                                     !.saved = h.slots]
               /\ UNCHANGED <<err, thrown>>

\* the `None` arm of Call's Err branch: one more backtrace entry, and on to the caller
Propagate_entry_first(value, backtrace, origin) ==
    /\ err' = [value |-> value, backtrace |-> <<BacktraceFrame(Cur)>> \o backtrace]
    /\ frames' = Front(frames)
    /\ status' = "unwinding"
    /\ thrown' = origin
    /\ ev' = [NoEv EXCEPT !.kind = "propagate", !.hs = Cur.handlers, !.frame = Len(frames),
                          !.entries = Len(backtrace), !.stk = stack, !.operand = read_byte]
    /\ UNCHANGED <<stack, up_values, open_up_values>>

Propagate(value, backtrace, origin) ==
    /\ err' = [value |-> value, backtrace |-> Append(backtrace, BacktraceFrame(Cur))]
    /\ frames' = Front(frames)
    /\ status' = "unwinding"
    /\ thrown' = origin
    /\ ev' = [NoEv EXCEPT !.kind = "propagate", !.hs = Cur.handlers, !.frame = Len(frames),
                          !.entries = Len(backtrace), !.stk = stack, !.operand = read_byte]
    /\ UNCHANGED <<stack, up_values, open_up_values>>

Heap == <<closures, lists, objects>>
Fixedv == <<functions, reported, tokens, parsed, ast>>

(***************************************************************************)
(* Vm::run, first half: wrap the script in a closure, push it, start its   *)
(* frame at slots 0.                                                       *)
(***************************************************************************)
Run ==
    /\ status = "ready"
    /\ closures' = Append(closures, [function |-> 1, up_values |-> <<>>])
    /\ stack' = Append(stack, ClosureValue(Len(closures) + 1))
    /\ frames' = <<new_closure(Len(closures) + 1, 0, 0, 0, Len(stack))>>
    /\ status' = "running"
    /\ ev' = NoEv
    /\ UNCHANGED <<globals, open_up_values, up_values, lists, objects, err, written,
                   thrown, Fixedv>>

(***************************************************************************)
(* Vm::run, second half: the script's frame has returned; pop one value    *)
(* and, for an Err, report backtrace.frames[0].token.                      *)
(***************************************************************************)
RunEnd ==
    /\ status \in {"returned", "unwinding"}
    /\ frames = <<>>
    /\ stack' = IF stack = <<>> THEN stack ELSE Front(stack)
    /\ IF status = "returned"
       THEN status' = "done" /\ UNCHANGED reported
       ELSE IF err.backtrace = <<>>
            THEN status' = "panic" /\ UNCHANGED reported
            ELSE status' = "error" /\ reported' = err.backtrace[1].token
    /\ ev' = NoEv
    /\ UNCHANGED <<globals, open_up_values, up_values, Heap, frames, err, written,
                   thrown, functions, tokens, parsed, ast>>

(***************************************************************************)
(* Frame::run: the exit of `while let Some(instr) = self.cur_instr()`,     *)
(* Ok(None).  The script's frame ends this way; a caller's Call arm        *)
(* truncates and then unwraps the None.                                    *)
(***************************************************************************)
EndOfChunk ==
    /\ Fetch("None")
    /\ IF Len(frames) = 1
       THEN /\ status' = "returned"
            /\ frames' = <<>>
            /\ UNCHANGED <<stack, up_values, open_up_values>>
       ELSE IF ~closable(stack, Cur.slots)
            THEN /\ status' = "panic"
                 /\ frames' = Front(frames)
                 /\ UNCHANGED <<stack, up_values, open_up_values>>
            ELSE /\ status' = "panic"
                 /\ frames' = Front(frames)
                 /\ up_values' = close_up_values(stack, Cur.slots)
                 /\ open_up_values' = still_open(Cur.slots)
                 /\ stack' = truncate(stack, Cur.slots)
    /\ ev' = NoEv
    /\ UNCHANGED <<globals, Heap, err, written, thrown, Fixedv>>

Pop ==
    /\ Fetch("Pop")
    /\ IF stack = <<>> THEN Missing("Pop") ELSE Continue(Front(stack), 1)
    /\ UNCHANGED <<globals, open_up_values, up_values, Heap, written, Fixedv>>

Constant8 ==
    /\ Fetch("Constant8")
    /\ IF ~HasOperands(1) \/ read_byte >= Len(Pool) THEN Missing("Constant8")
       ELSE Continue(Append(stack, get_constant(read_byte)), 2)
    /\ UNCHANGED <<globals, open_up_values, up_values, Heap, written, Fixedv>>

Negate ==
    /\ Fetch("Negate")
    /\ IF stack = <<>> THEN Missing("Negate")
       ELSE IF ~is_number(Last(stack))
       THEN Raise("operand must be a number", Front(stack))
       ELSE Continue(Append(Front(stack), NumNeg(Last(stack))), 1)
    /\ UNCHANGED <<globals, open_up_values, up_values, Heap, written, Fixedv>>

\* impl Add for Value (value.rs): two numbers add; if either operand is a string
\* the two renderings concatenate
ValueAdd(a, b) ==
    IF is_number(a) /\ is_number(b) THEN NumAdd(a, b)
    ELSE String(to_string(a) \o to_string(b))

\* self.push(a + b): the arm tests nothing and has no `return Err`, so for a pair
\* that value.rs cannot add the host panics or some value is pushed (Nil stands
\* for it); the frame never returns an Err
Add ==
    /\ Fetch("Add")
    /\ LET b == Last(stack)
           a == stack[Len(stack) - 1]
           rest == SubSeq(stack, 1, Len(stack) - 2)
           h == [NoEv EXCEPT !.arith = [op |-> "Add", a |-> a, b |-> b]]
       IN IF Len(stack) < 2 THEN Missing("Add")
          ELSE IF (is_number(a) /\ is_number(b)) \/ is_string(a) \/ is_string(b)
          THEN ContinueEv(Append(rest, ValueAdd(a, b)), 1, h)
          ELSE PanicEv(h) \/ ContinueEv(Append(rest, Nil), 1, h)
    /\ UNCHANGED <<globals, open_up_values, up_values, Heap, written, Fixedv>>

Subtract ==
    /\ Fetch("Subtract")
    /\ LET b == Last(stack)
           a == stack[Len(stack) - 1]
           rest == SubSeq(stack, 1, Len(stack) - 2)
           h == [NoEv EXCEPT !.arith = [op |-> "Subtract", a |-> a, b |-> b]]
       IN IF Len(stack) < 2 THEN Missing("Subtract")
          ELSE IF ~are_subtractable(a, b)
          THEN RaiseEv("operands cannot be subtracted", rest, h)
          ELSE ContinueEv(Append(rest, NumSub(a, b)), 1, h)
    /\ UNCHANGED <<globals, open_up_values, up_values, Heap, written, Fixedv>>

Jump ==
    /\ Fetch("Jump")
    /\ IF ~HasOperands(2) THEN Missing("Jump") ELSE Continue(stack, read_2bytes)
    /\ UNCHANGED <<globals, open_up_values, up_values, Heap, written, Fixedv>>

Constant16 ==
    /\ Fetch("Constant16")
    /\ IF ~HasOperands(2) \/ read_2bytes >= Len(Pool) THEN Missing("Constant16")
       ELSE Continue(Append(stack, get_constant(read_2bytes)), 3)
    /\ UNCHANGED <<globals, open_up_values, up_values, Heap, written, Fixedv>>

Multiply ==
    /\ Fetch("Multiply")
    /\ LET b == Last(stack)
           a == stack[Len(stack) - 1]
           rest == SubSeq(stack, 1, Len(stack) - 2)
           h == [NoEv EXCEPT !.arith = [op |-> "Multiply", a |-> a, b |-> b]]
       IN IF Len(stack) < 2 THEN Missing("Multiply")
          ELSE IF ~are_multipliable(a, b)
          THEN RaiseEv("operands cannot be multiplied", rest, h)
          ELSE ContinueEv(Append(rest, NumMul(a, b)), 1, h)
    /\ UNCHANGED <<globals, open_up_values, up_values, Heap, written, Fixedv>>

Divide ==
    /\ Fetch("Divide")
    /\ LET b == Last(stack)
           a == stack[Len(stack) - 1]
           rest == SubSeq(stack, 1, Len(stack) - 2)
           h == [NoEv EXCEPT !.arith = [op |-> "Divide", a |-> a, b |-> b]]
       IN IF Len(stack) < 2 THEN Missing("Divide")
          ELSE IF ~are_dividable(a, b)
          THEN RaiseEv("operands cannot be divided", rest, h)
          ELSE ContinueEv(Append(rest, NumDiv(a, b)), 1, h)
    /\ UNCHANGED <<globals, open_up_values, up_values, Heap, written, Fixedv>>

Remainder ==
    /\ Fetch("Remainder")
    /\ LET b == Last(stack)
           a == stack[Len(stack) - 1]
           rest == SubSeq(stack, 1, Len(stack) - 2)
           h == [NoEv EXCEPT !.arith = [op |-> "Remainder", a |-> a, b |-> b]]
       IN IF Len(stack) < 2 THEN Missing("Remainder")
          ELSE IF ~are_remainderable(a, b)
          THEN RaiseEv("operands cannot be divided", rest, h)
          ELSE ContinueEv(Append(rest, NumRem(a, b)), 1, h)
    /\ UNCHANGED <<globals, open_up_values, up_values, Heap, written, Fixedv>>

Not ==
    /\ Fetch("Not")
    /\ IF stack = <<>> THEN Missing("Not")
       ELSE Continue(Append(Front(stack), ValueNot(Last(stack))), 1)
    /\ UNCHANGED <<globals, open_up_values, up_values, Heap, written, Fixedv>>

Equal ==
    /\ Fetch("Equal")
    /\ LET b == Last(stack)
           a == stack[Len(stack) - 1]
           rest == SubSeq(stack, 1, Len(stack) - 2)
       IN IF Len(stack) < 2 THEN Missing("Equal")
          ELSE Continue(Append(rest, Bool(ValueEqual(a, b))), 1)
    /\ UNCHANGED <<globals, open_up_values, up_values, Heap, written, Fixedv>>

Greater ==
    /\ Fetch("Greater")
    /\ LET b == Last(stack)
           a == stack[Len(stack) - 1]
           rest == SubSeq(stack, 1, Len(stack) - 2)
       IN IF Len(stack) < 2 THEN Missing("Greater")
          ELSE IF ~are_numbers(a, b)
          THEN Raise("operands must be numbers", rest)
          ELSE Continue(Append(rest, Bool(NumLess(b, a))), 1)
    /\ UNCHANGED <<globals, open_up_values, up_values, Heap, written, Fixedv>>

GreaterEqual ==
    /\ Fetch("GreaterEqual")
    /\ LET b == Last(stack)
           a == stack[Len(stack) - 1]
           rest == SubSeq(stack, 1, Len(stack) - 2)
       IN IF Len(stack) < 2 THEN Missing("GreaterEqual")
          ELSE IF ~are_numbers(a, b)
          THEN Raise("operands must be numbers", rest)
          ELSE Continue(Append(rest, Bool(NumLess(b, a) \/ NumEqual(a, b))), 1)
    /\ UNCHANGED <<globals, open_up_values, up_values, Heap, written, Fixedv>>

Less ==
    /\ Fetch("Less")
    /\ LET b == Last(stack)
           a == stack[Len(stack) - 1]
           rest == SubSeq(stack, 1, Len(stack) - 2)
       IN IF Len(stack) < 2 THEN Missing("Less")
          ELSE IF ~are_numbers(a, b)
          THEN Raise("operands must be numbers", rest)
          ELSE Continue(Append(rest, Bool(NumLess(a, b))), 1)
    /\ UNCHANGED <<globals, open_up_values, up_values, Heap, written, Fixedv>>

LessEqual ==
    /\ Fetch("LessEqual")
    /\ LET b == Last(stack)
           a == stack[Len(stack) - 1]
           rest == SubSeq(stack, 1, Len(stack) - 2)
       IN IF Len(stack) < 2 THEN Missing("LessEqual")
          ELSE IF ~are_numbers(a, b)
          THEN Raise("operands must be numbers", rest)
          ELSE Continue(Append(rest, Bool(NumLess(a, b) \/ NumEqual(a, b))), 1)
    /\ UNCHANGED <<globals, open_up_values, up_values, Heap, written, Fixedv>>

\* the tested value stays on the stack
JumpIfFalse ==
    /\ Fetch("JumpIfFalse")
    /\ IF stack = <<>> THEN Missing("JumpIfFalse")
       ELSE IF is_truthy(Last(stack)) THEN Continue(stack, 3)
       ELSE IF ~HasOperands(2) THEN Missing("JumpIfFalse")
       ELSE Continue(stack, read_2bytes)
    /\ UNCHANGED <<globals, open_up_values, up_values, Heap, written, Fixedv>>

JumpIfTrue ==
    /\ Fetch("JumpIfTrue")
    /\ IF stack = <<>> THEN Missing("JumpIfTrue")
       ELSE IF ~is_truthy(Last(stack)) THEN Continue(stack, 3)
       ELSE IF ~HasOperands(2) THEN Missing("JumpIfTrue")
       ELSE Continue(stack, read_2bytes)
    /\ UNCHANGED <<globals, open_up_values, up_values, Heap, written, Fixedv>>

\* progress = -(read_2bytes() as i32), and set_ip((ip as i32 + progress) as usize):
\* a target before the chunk's first byte becomes an offset beyond every chunk
\* (I32Max stands for it)
Loop ==
    /\ Fetch("Loop")
    /\ IF ~HasOperands(2) THEN Missing("Loop")
       ELSE /\ stack' = stack
            /\ frames' = [frames EXCEPT ![Len(frames)].ip =
                              IF @ < read_2bytes THEN I32Max ELSE @ - read_2bytes]
            /\ ev' = NoEv
            /\ UNCHANGED <<status, err, thrown>>
    /\ UNCHANGED <<globals, open_up_values, up_values, Heap, written, Fixedv>>

\* globals.contains_key(&name)
contains_key_but_natives(name) == name \in DOMAIN globals /\ globals[name].t # "native"
contains_key(name) == name \in DOMAIN globals

DefineGlobal ==
    /\ Fetch("DefineGlobal")
    /\ LET name == to_string(Last(stack))
           value == stack[Len(stack) - 1]
           rest == SubSeq(stack, 1, Len(stack) - 2)
           h == [NoEv EXCEPT !.glob = [op |-> "DefineGlobal", name |-> name,
                                       value |-> value, before |-> globals]]
       IN IF Len(stack) < 2 THEN Missing("DefineGlobal") /\ UNCHANGED globals
          ELSE IF contains_key(name)
          THEN RaiseEv("a variable with this name exists", rest, h) /\ UNCHANGED globals
          ELSE /\ ContinueEv(rest, 1, h)
               /\ globals' = [n \in DOMAIN globals \cup {name} |->
                                 IF n = name THEN value ELSE globals[n]]
    /\ UNCHANGED <<open_up_values, up_values, Heap, written, Fixedv>>

SetGlobal ==
    /\ Fetch("SetGlobal")
    /\ LET name == to_string(Last(stack))
           rest == Front(stack)
           h == [NoEv EXCEPT !.glob = [op |-> "SetGlobal", name |-> name,
                                       value |-> Last(rest), before |-> globals],
                             !.assign = Assigning("SetGlobal", 0)]
       IN IF Len(stack) < 2 THEN Missing("SetGlobal") /\ UNCHANGED globals
          ELSE IF ~contains_key(name)
          THEN RaiseEv("no variable with this name", rest, h) /\ UNCHANGED globals
          ELSE /\ ContinueEv(rest, 1, h)
               /\ globals' = [n \in DOMAIN globals \cup {name} |->
                                 IF n = name THEN Last(rest) ELSE globals[n]]
    /\ UNCHANGED <<open_up_values, up_values, Heap, written, Fixedv>>

GetGlobal ==
    /\ Fetch("GetGlobal")
    /\ LET name == to_string(Last(stack))
           rest == Front(stack)
           h == [NoEv EXCEPT !.glob = [op |-> "GetGlobal", name |-> name,
                                       value |-> Nil, before |-> globals]]
       IN IF stack = <<>> THEN Missing("GetGlobal")
          ELSE IF ~contains_key(name)
          THEN RaiseEv("no variable with this name", rest, h)
          ELSE ContinueEv(Append(rest, globals[name]), 1, h)
    /\ UNCHANGED <<globals, open_up_values, up_values, Heap, written, Fixedv>>

\* a GetLocal that would push a copy of the collection, not a reference to it
GetLocal_deep_copy ==
    /\ Fetch("GetLocal")
    /\ LET v == stack[Cur.slots + read_byte + 1]
       IN CASE ~HasOperands(1) \/ Cur.slots + read_byte >= Len(stack) ->
                 Missing("GetLocal") /\ UNCHANGED Heap
            [] v.t = "list" ->
                 /\ lists' = Append(lists, lists[v.n])
                 /\ Continue(Append(stack, List(Len(lists) + 1)), 2)
                 /\ UNCHANGED <<closures, objects>>
            [] v.t = "object" ->
                 /\ objects' = Append(objects, objects[v.n])
                 /\ Continue(Append(stack, ObjectValue(Len(objects) + 1)), 2)
                 /\ UNCHANGED <<closures, lists>>
            [] OTHER -> Continue(Append(stack, v), 2) /\ UNCHANGED Heap
    /\ UNCHANGED <<globals, open_up_values, up_values, written, Fixedv>>

GetLocal ==
    /\ Fetch("GetLocal")
    /\ IF ~HasOperands(1) \/ Cur.slots + read_byte >= Len(stack) THEN Missing("GetLocal")
       ELSE Continue(Append(stack, stack[Cur.slots + read_byte + 1]), 2)
    /\ UNCHANGED <<globals, open_up_values, up_values, Heap, written, Fixedv>>

\* history: a write to a slot is a write to the variable of every cell open on it;
\* `who` is the closure that wrote through SetUpValue (0 for SetLocal)
WrittenAt(idx, value, who) ==
    [c \in DOMAIN written |->
        IF up_values[c].open /\ up_values[c].idx = idx
        THEN [written[c] EXCEPT !.val = value, !.writer = who, !.wclosed = FALSE]
        ELSE written[c]]

\* a SetLocal that would consume the value it assigns
SetLocal_consumes ==
    /\ Fetch("SetLocal")
    /\ LET idx == Cur.slots + read_byte
       IN IF ~HasOperands(1) \/ idx >= Len(stack) THEN Missing("SetLocal") /\ UNCHANGED written
          ELSE /\ ContinueEv(Front([stack EXCEPT ![idx + 1] = Last(stack)]), 2,
                             [NoEv EXCEPT !.assign = Assigning("SetLocal", idx)])
               /\ written' = WrittenAt(idx, Last(stack), 0)
    /\ UNCHANGED <<globals, open_up_values, up_values, Heap, Fixedv>>

SetLocal ==
    /\ Fetch("SetLocal")
    /\ LET idx == Cur.slots + read_byte
       IN IF ~HasOperands(1) \/ idx >= Len(stack) THEN Missing("SetLocal") /\ UNCHANGED written
          ELSE /\ ContinueEv([stack EXCEPT ![idx + 1] = Last(stack)], 2,
                             [NoEv EXCEPT !.assign = Assigning("SetLocal", idx)])
               /\ written' = WrittenAt(idx, Last(stack), 0)
    /\ UNCHANGED <<globals, open_up_values, up_values, Heap, Fixedv>>

BuildList ==
    /\ Fetch("BuildList")
    /\ LET size == read_byte
           len == Len(stack)
           items == SubSeq(stack, len - size + 1, len)
       IN IF ~HasOperands(1) \/ size > len THEN Missing("BuildList") /\ UNCHANGED lists
          ELSE /\ lists' = Append(lists, items)
               /\ Continue(Append(SubSeq(stack, 1, len - size), List(Len(lists) + 1)), 2)
    /\ UNCHANGED <<globals, open_up_values, up_values, closures, objects, written, Fixedv>>

\* the pairs are popped value first, name second, the topmost pair first;
\* HashMap::insert lets a later insert (a pair lower on the stack) win
BuildObject ==
    /\ Fetch("BuildObject")
    /\ LET size == read_byte
           len == Len(stack)
           name(i) == to_string(stack[len - 2 * size + 2 * i - 1])
           value(i) == stack[len - 2 * size + 2 * i]
           names == {name(i) : i \in 1..size}
           first(n) == CHOOSE i \in 1..size : name(i) = n /\ \A j \in 1..size : name(j) = n => i <= j
       IN IF ~HasOperands(1) \/ 2 * size > len THEN Missing("BuildObject") /\ UNCHANGED objects
          ELSE /\ objects' = Append(objects, [n \in names |-> value(first(n))])
               /\ Continue(Append(SubSeq(stack, 1, len - 2 * size),
                                   ObjectValue(Len(objects) + 1)), 2)
    /\ UNCHANGED <<globals, open_up_values, up_values, closures, lists, written, Fixedv>>

\* the characters of a string (str::chars)
chars(s) == [i \in 1..Len(s) |-> SubSeq(s, i, i)]

\* string.chars().nth(idx).unwrap().to_string()
nth_first(s, idx) == chars(s)[1]

nth(s, idx) == chars(s)[idx + 1]

\* HashMap::insert on the properties of an object
insert_if_absent(items, name, value) ==
    [n \in DOMAIN items \cup {name} |-> IF n \in DOMAIN items THEN items[n] ELSE value]

insert(items, name, value) ==
    [n \in DOMAIN items \cup {name} |-> IF n = name THEN value ELSE items[n]]

Get ==
    /\ Fetch("Get")
    /\ LET key == Last(stack)
           obj == stack[Len(stack) - 1]
           rest == SubSeq(stack, 1, Len(stack) - 2)
           h == [NoEv EXCEPT !.index = [op |-> "Get", obj |-> obj, key |-> key, val |-> Nil,
                                        lists |-> lists, objects |-> objects]]
       IN CASE Len(stack) < 2 -> Missing("Get")
            [] obj.t = "object" ->
                 IF ~is_string(key) THEN RaiseEv("property name must be a string", rest, h)
                 ELSE IF to_string(key) \in DOMAIN objects[obj.n]
                      THEN ContinueEv(Append(rest, objects[obj.n][to_string(key)]), 1, h)
                      ELSE RaiseEv("no value with this name", rest, h)
            [] obj.t = "list" ->
                 IF ~is_int(key) THEN RaiseEv("element number must be an integer", rest, h)
                 ELSE LET r == get_absolute_idx(as_int(key), Len(lists[obj.n]))
                          e == [h EXCEPT !.op = "Get", !.key = as_int(key), !.id = obj.n,
                                         !.items = lists[obj.n]]
                      IN CASE r.r = "Ok" ->
                                ContinueEv(Append(rest, lists[obj.n][r.i + 1]), 1, e)
                           [] r.r = "Err" -> RaiseEv("no element with this number", rest, e)
                           [] OTHER -> PanicEv(e)
            [] obj.t = "string" ->
                 IF ~is_int(key) THEN RaiseEv("element number must be an integer", rest, h)
                 ELSE LET r == get_absolute_idx(as_int(key), Len(chars(obj.s)))
                      IN CASE r.r = "Ok" ->
                                ContinueEv(Append(rest, String(nth(obj.s, r.i))), 1, h)
                           [] r.r = "Err" -> RaiseEv("no element with this number", rest, h)
                           [] OTHER -> PanicEv(h)
            [] OTHER -> RaiseEv("variable must be a string, a list or an object", rest, h)
    /\ UNCHANGED <<globals, open_up_values, up_values, Heap, written, Fixedv>>

Set ==
    /\ Fetch("Set")
    /\ LET key == Last(stack)
           obj == stack[Len(stack) - 1]
           rest == SubSeq(stack, 1, Len(stack) - 2)
           value == IF rest = <<>> THEN Nil ELSE Last(rest)
           h == [NoEv EXCEPT !.index = [op |-> "Set", obj |-> obj, key |-> key, val |-> value,
                                        lists |-> lists, objects |-> objects],
                             !.assign = Assigning("Set", 0)]
       \* self.last() is reached on the paths that assign, not on those that return Err
       IN CASE Len(stack) < 2 -> Missing("Set") /\ UNCHANGED <<lists, objects>>
            [] obj.t = "object" ->
                 IF ~is_string(key)
                 THEN RaiseEv("property name must be a string", rest, h)
                      /\ UNCHANGED <<lists, objects>>
                 ELSE IF rest = <<>> THEN Missing("Set") /\ UNCHANGED <<lists, objects>>
                 ELSE /\ objects' = [objects EXCEPT ![obj.n] = insert(@, key.s, value)]
                      /\ ContinueEv(rest, 1, h)
                      /\ UNCHANGED lists
            [] obj.t = "list" ->
                 IF ~is_int(key)
                 THEN RaiseEv("element number must be an integer", rest, h)
                      /\ UNCHANGED <<lists, objects>>
                 ELSE LET r == get_absolute_idx(as_int(key), Len(lists[obj.n]))
                          e == [h EXCEPT !.op = "Set", !.key = as_int(key), !.id = obj.n,
                                         !.items = lists[obj.n], !.val = value]
                      IN CASE r.r = "Ok" /\ rest = <<>> ->
                                Missing("Set") /\ UNCHANGED <<lists, objects>>
                           [] r.r = "Ok" ->
                                /\ lists' = [lists EXCEPT ![obj.n][r.i + 1] = value]
                                /\ ContinueEv(rest, 1, e)
                                /\ UNCHANGED objects
                           [] r.r = "Err" ->
                                RaiseEv("no element with this number", rest, e)
                                /\ UNCHANGED <<lists, objects>>
                           [] OTHER -> PanicEv(e) /\ UNCHANGED <<lists, objects>>
            [] OTHER ->
                 RaiseEv("variable must be a list or an object", rest, h)
                 /\ UNCHANGED <<lists, objects>>
    /\ UNCHANGED <<globals, open_up_values, up_values, closures, written, Fixedv>>

(***************************************************************************)
(* Closure: pop the function, resolve `count` (is_local, index) pairs in   *)
(* order; a local is looked up in the open list and appended if absent.    *)
(***************************************************************************)
\* Frame::read_up_value at byte `offset`
read_up_value(offset) ==
    [is_local |-> get_chunk(Cur)[offset + 1] # 0, idx |-> get_chunk(Cur)[offset + 2]]

\* the loop `for (is_local, mut idx) in data`: acc holds the closure's cells so
\* far (res), the heap of cells, the open list and the write history
RECURSIVE Capture(_, _, _)
Capture(k, count, acc) ==
    IF k = count THEN acc
    ELSE LET d == read_up_value(Cur.ip + 2 + k * 2)
         IN IF d.is_local
            THEN LET idx == Cur.slots + d.idx
                     found == get_up_value(acc.opens, acc.cells, idx)
                 IN IF found # 0
                    THEN Capture(k + 1, count, [acc EXCEPT !.res = Append(@, found)])
                    \* Vm::append_up_value
                    ELSE Capture(k + 1, count,
                            [res |-> Append(acc.res, Len(acc.cells) + 1),
                             cells |-> Append(acc.cells, Open(idx)),
                             opens |-> Append(acc.opens, Len(acc.cells) + 1),
                             hist |-> Append(acc.hist,
                                        [val |-> IF idx < Len(stack) THEN stack[idx + 1] ELSE Nil,
                                         slot |-> idx, writer |-> 0,
                                         wclosed |-> FALSE,
                                         dup |-> \E c \in DOMAIN acc.cells :
                                                    acc.cells[c].open /\ acc.cells[c].idx = idx]),
                             panic |-> acc.panic])
            ELSE IF Cur.enclosing = 0 \/ d.idx >= Len(closures[Cur.enclosing].up_values)
                 THEN [acc EXCEPT !.panic = TRUE]
                 ELSE Capture(k + 1, count,
                         [acc EXCEPT !.res = Append(@, closures[Cur.enclosing].up_values[d.idx + 1])])

Closure ==
    /\ Fetch("Closure")
    /\ LET count == read_byte
           function == Last(stack)
           r == Capture(0, count, [res |-> <<>>, cells |-> up_values, opens |-> open_up_values,
                                   hist |-> written, panic |-> FALSE])
           h == [NoEv EXCEPT !.kind = "closure",
                             !.caps = [k \in 1..count |-> read_up_value(Cur.ip + 2 * k)]]
       \* read_byte, self.pop().as_function() and read_up_value, before any cell is made
       IN IF ~HasOperands(1) \/ stack = <<>>
          THEN Missing("Closure") /\ UNCHANGED <<up_values, open_up_values, written, closures>>
          ELSE IF function.t # "function" \/ ~HasOperands(1 + 2 * count)
          THEN Missing("Closure") /\ UNCHANGED <<up_values, open_up_values, written, closures>>
          ELSE IF r.panic
          THEN PanicEv(h) /\ UNCHANGED <<up_values, open_up_values, written, closures>>
          ELSE /\ up_values' = r.cells
               /\ open_up_values' = r.opens
               /\ written' = r.hist
               /\ closures' = Append(closures, [function |-> function.n, up_values |-> r.res])
               /\ ContinueEv(Append(Front(stack), ClosureValue(Len(closures) + 1)),
                             2 + count * 2, h)
    /\ UNCHANGED <<globals, lists, objects, Fixedv>>

(***************************************************************************)
(* Native functions (natives.rs).  `size` takes one argument, nth(1), and  *)
(* returns the length of a list, string or object; it throws otherwise.    *)
(***************************************************************************)
Natives == {"size"}

native_run(name, argc, slots) ==
    LET arg == stack[slots + 2]
    IN IF argc # 1 THEN [ok |-> FALSE, value |-> String("expected 1 argument")]
       ELSE CASE arg.t = "list" -> [ok |-> TRUE, value |-> Number(Len(lists[arg.n]))]
              [] arg.t = "string" -> [ok |-> TRUE, value |-> Number(Len(chars(arg.s)))]
              [] arg.t = "object" -> [ok |-> TRUE, value |-> Number(Cardinality(DOMAIN objects[arg.n]))]
              [] OTHER -> [ok |-> FALSE, value |-> String("has no size")]

(***************************************************************************)
(* Call.  For a closure callee the new frame is pushed and its             *)
(* instructions follow; the Ok and Err arms of `match frame.run(argc)` are *)
(* taken when it ends (Return, CallErr).  A native callee runs to its      *)
(* Result inside this step, arms included.                                 *)
(***************************************************************************)
Call ==
    /\ Fetch("Call")
    /\ LET argc == read_byte
           idx == Len(stack) - argc - 1
           callee == stack[idx + 1]
           e == [NoEv EXCEPT !.op = "Call", !.argc = argc, !.pre = Len(stack), !.id = callee.n,
                             !.arity = functions[closures[callee.n].function].arity,
                             !.depth = Len(frames)]
       \* stack.len() - argc - 1 and stack[idx]
       IN CASE ~HasOperands(1) \/ Len(stack) < read_byte + 1 ->
                 Missing("Call") /\ UNCHANGED <<up_values, open_up_values>>
            [] callee.t = "closure" ->
                 IF check_arity(functions[closures[callee.n].function].arity, argc).r = "Err"
                 THEN RaiseEv(to_string(check_arity(functions[closures[callee.n].function].arity,
                                                    argc).value), stack, e)
                      /\ UNCHANGED <<up_values, open_up_values>>
                 ELSE /\ frames' = Append(frames, new_closure(callee.n, idx, Cur.closure, argc,
                                                              Len(stack)))
                      /\ ev' = [e EXCEPT !.kind = "call"]
                      /\ UNCHANGED <<stack, status, err, thrown, up_values, open_up_values>>
            [] callee.t = "native" ->
                 LET r == native_run(callee.s, argc, idx)
                 IN IF r.ok
                    THEN IF ~closable(stack, idx)
                         THEN PanicEv([NoEv EXCEPT !.kind = "unwrap", !.shrink = Shrunk(idx),
                                                   !.stk = stack, !.at = "Call"])
                              /\ UNCHANGED <<up_values, open_up_values>>
                         ELSE /\ up_values' = close_up_values(stack, idx)
                              /\ open_up_values' = still_open(idx)
                              /\ ContinueEv(Append(truncate(stack, idx), r.value), 2,
                                     [NoEv EXCEPT !.kind = "return", !.argc = argc,
                                                  !.pre = Len(stack), !.depth = idx + 1,
                                                  !.flag = TRUE, !.shrink = Shrunk(idx)])
                    ELSE IF Cur.handlers # <<>>
                         THEN Resume(r.value, stack, 0, ThrownHere(FALSE))
                         ELSE Propagate(r.value, <<>>, ThrownHere(FALSE))
            \* `_ => todo!()`
            [] OTHER -> PanicEv([NoEv EXCEPT !.kind = "noncallable", !.val = callee,
                                            !.hs = Cur.handlers])
                        /\ UNCHANGED <<up_values, open_up_values>>
    /\ UNCHANGED <<globals, Heap, written, Fixedv>>

(***************************************************************************)
(* Return, and the Ok arm of the caller's Call: the value is popped, then  *)
(* truncate(idx) closes the cells over the stack without it,               *)
(* push(returned), progress = 2.  The script's frame hands Ok to Vm::run.  *)
(***************************************************************************)
\* a Return that would hand back the value in the callee's slot, not the one popped
Return_callee_slot ==
    /\ Fetch("Return")
    /\ LET value == Last(stack)
           idx == Cur.slots
       IN IF stack = <<>>
          THEN Missing("Return") /\ UNCHANGED <<up_values, open_up_values>>
          ELSE IF Len(frames) = 1
          THEN /\ stack' = Front(stack)
               /\ frames' = <<>>
               /\ status' = "returned"
               /\ ev' = NoEv
               /\ UNCHANGED <<up_values, open_up_values>>
          ELSE IF ~closable(Front(stack), idx)
               THEN /\ status' = "panic"
                    /\ stack' = Front(stack)
                    /\ frames' = Front(frames)
                    /\ ev' = [NoEv EXCEPT !.kind = "unwrap", !.shrink = Shrunk(idx),
                                          !.stk = Front(stack), !.at = "Return"]
                    /\ UNCHANGED <<up_values, open_up_values>>
               ELSE /\ up_values' = close_up_values(Front(stack), idx)
                    /\ open_up_values' = still_open(idx)
                    /\ stack' = Append(truncate(Front(stack), idx), stack[idx + 1])
                    /\ frames' = [Front(frames) EXCEPT ![Len(frames) - 1].ip = @ + 2]
                    /\ ev' = [NoEv EXCEPT !.kind = "return", !.argc = Cur.argc,
                                          !.pre = Cur.pre,
                                          !.depth = Len(truncate(Front(stack), idx)) + 1,
                                          !.shrink = Shrunk(idx), !.hs = Cur.handlers,
                                          !.frame = Len(frames)]
                    /\ UNCHANGED status
    /\ UNCHANGED <<globals, Heap, err, written, thrown, Fixedv>>

Return ==
    /\ Fetch("Return")
    /\ LET value == Last(stack)
           idx == Cur.slots
       IN IF stack = <<>>
          THEN Missing("Return") /\ UNCHANGED <<up_values, open_up_values>>
          ELSE IF Len(frames) = 1
          THEN /\ stack' = Front(stack)
               /\ frames' = <<>>
               /\ status' = "returned"
               /\ ev' = NoEv
               /\ UNCHANGED <<up_values, open_up_values>>
          ELSE IF ~closable(Front(stack), idx)
               THEN /\ status' = "panic"
                    /\ stack' = Front(stack)
                    /\ frames' = Front(frames)
                    /\ ev' = [NoEv EXCEPT !.kind = "unwrap", !.shrink = Shrunk(idx),
                                          !.stk = Front(stack), !.at = "Return"]
                    /\ UNCHANGED <<up_values, open_up_values>>
               ELSE /\ up_values' = close_up_values(Front(stack), idx)
                    /\ open_up_values' = still_open(idx)
                    /\ stack' = Append(truncate(Front(stack), idx), value)
                    /\ frames' = [Front(frames) EXCEPT ![Len(frames) - 1].ip = @ + 2]
                    /\ ev' = [NoEv EXCEPT !.kind = "return", !.argc = Cur.argc,
                                          !.pre = Cur.pre,
                                          !.depth = Len(truncate(Front(stack), idx)) + 1,
                                          !.shrink = Shrunk(idx), !.hs = Cur.handlers,
                                          !.frame = Len(frames)]
                    /\ UNCHANGED status
    /\ UNCHANGED <<globals, Heap, err, written, thrown, Fixedv>>

GetUpValue ==
    /\ Fetch("GetUpValue")
    /\ LET c == get_closure(Cur).up_values[read_byte + 1]
           value == IF up_values[c].open THEN stack[up_values[c].idx + 1] ELSE up_values[c].val
       \* closure.get_up_value(idx) and, for an open cell, self.get(idx)
       IN IF ~HasOperands(1) \/ read_byte >= Len(get_closure(Cur).up_values)
          THEN Missing("GetUpValue")
          ELSE IF up_values[c].open /\ up_values[c].idx >= Len(stack)
          THEN Missing("GetUpValue")
          ELSE ContinueEv(Append(stack, value), 2,
                          [NoEv EXCEPT !.kind = "getupvalue", !.cell = c,
                                       !.flag = ~up_values[c].open, !.slot = written[c].slot])
    /\ UNCHANGED <<globals, open_up_values, up_values, Heap, written, Fixedv>>

SetUpValue ==
    /\ Fetch("SetUpValue")
    /\ LET c == get_closure(Cur).up_values[read_byte + 1]
           e == [NoEv EXCEPT !.kind = "setupvalue", !.cell = c, !.flag = ~up_values[c].open,
                             !.assign = Assigning("SetUpValue", c)]
       IN IF ~HasOperands(1) \/ read_byte >= Len(get_closure(Cur).up_values) \/ stack = <<>>
          THEN Missing("SetUpValue") /\ UNCHANGED <<up_values, written>>
          ELSE IF up_values[c].open /\ up_values[c].idx >= Len(stack)
          THEN Missing("SetUpValue") /\ UNCHANGED <<up_values, written>>
          ELSE IF up_values[c].open
          THEN /\ ContinueEv([stack EXCEPT ![up_values[c].idx + 1] = Last(stack)], 2, e)
               /\ written' = WrittenAt(up_values[c].idx, Last(stack), Cur.closure)
               /\ UNCHANGED up_values
          ELSE /\ up_values' = [up_values EXCEPT ![c] = Closed(Last(stack))]
               /\ written' = [written EXCEPT ![c].val = Last(stack), ![c].writer = Cur.closure,
                                              ![c].wclosed = TRUE]
               /\ ContinueEv(stack, 2, e)
    /\ UNCHANGED <<globals, open_up_values, Heap, Fixedv>>

CloseUpValue ==
    /\ Fetch("CloseUpValue")
    /\ LET idx == Len(stack) - 1
       IN IF stack = <<>>
          THEN Missing("CloseUpValue") /\ UNCHANGED <<up_values, open_up_values>>
          ELSE IF ~closable(stack, idx)
          THEN PanicEv([NoEv EXCEPT !.kind = "unwrap", !.shrink = Shrunk(idx),
                                    !.stk = stack, !.at = "CloseUpValue"])
               /\ UNCHANGED <<up_values, open_up_values>>
          ELSE /\ up_values' = close_up_values(stack, idx)
               /\ open_up_values' = still_open(idx)
               /\ ContinueEv(Front(stack), 1,
                             [NoEv EXCEPT !.kind = "closeupvalue", !.shrink = Shrunk(idx)])
    /\ UNCHANGED <<globals, Heap, written, Fixedv>>

\* the handler's ip is get_ip() + read_byte(): the first operand byte alone
AppendHandler ==
    /\ Fetch("AppendHandler")
    /\ IF ~HasOperands(1) THEN Missing("AppendHandler")
       ELSE /\ stack' = stack
            /\ frames' = [frames EXCEPT ![Len(frames)].handlers =
                              Append(@, [slots |-> Len(stack), ip |-> Cur.ip + read_byte]),
                                        ![Len(frames)].ip = @ + 3]
            /\ ev' = [NoEv EXCEPT !.kind = "appendhandler", !.saved = Len(stack),
                                  !.hs = Cur.handlers, !.frame = Len(frames)]
            /\ UNCHANGED <<status, err, thrown>>
    /\ UNCHANGED <<globals, open_up_values, up_values, Heap, written, Fixedv>>

PopHandler ==
    /\ Fetch("PopHandler")
    /\ stack' = stack
    /\ frames' = [frames EXCEPT ![Len(frames)].handlers = IF @ = <<>> THEN @ ELSE Front(@),
                                ![Len(frames)].ip = @ + 1]
    /\ ev' = [NoEv EXCEPT !.kind = "pophandler", !.hs = Cur.handlers, !.frame = Len(frames)]
    /\ UNCHANGED <<status, err, thrown, globals, open_up_values, up_values, Heap, written, Fixedv>>

Throw ==
    /\ Fetch("Throw")
    /\ IF stack = <<>> THEN Missing("Throw") /\ UNCHANGED <<up_values, open_up_values>>
       ELSE IF Cur.handlers # <<>>
       THEN Resume(Last(stack), Front(stack), 0, ThrownHere(FALSE))
       ELSE /\ err' = [value |-> Last(stack), backtrace |-> <<BacktraceFrame(Cur)>>]
            /\ stack' = Front(stack)
            /\ frames' = Front(frames)
            /\ status' = "unwinding"
            /\ thrown' = ThrownHere(FALSE)
            /\ ev' = [NoEv EXCEPT !.kind = "throw", !.hs = Cur.handlers, !.frame = Len(frames)]
            /\ UNCHANGED <<up_values, open_up_values>>
    /\ UNCHANGED <<globals, Heap, written, Fixedv>>

\* `Unknown => unreachable!()`: a byte that is no instruction's
Unknown ==
    /\ status = "running"
    /\ frames # <<>>
    /\ cur_instr \notin Instructions \cup {"None"}
    /\ PanicEv([NoEv EXCEPT !.kind = "unknown"])
    /\ UNCHANGED <<globals, open_up_values, up_values, Heap, written, Fixedv>>

(***************************************************************************)
(* The Err arm of `match frame.run(argc)` in Call, for a closure callee    *)
(* whose frame returned Err: the caller's innermost handler catches, or    *)
(* the caller adds its backtrace entry and returns the Err in turn.        *)
(***************************************************************************)
CallErr ==
    /\ status = "unwinding"
    /\ frames # <<>>
    /\ IF Cur.handlers # <<>>
       THEN Resume(err.value, stack, Len(err.backtrace), thrown)
       ELSE Propagate(err.value, err.backtrace, thrown)
    /\ UNCHANGED <<globals, Heap, written, Fixedv>>

(***************************************************************************)
(* Programs: the compiler's output the VM is run on.  Every function of a  *)
(* program uses the one constant pool Pool; C(v) is the pool index of v.   *)
(***************************************************************************)
C(v) == (CHOOSE i \in 1..Len(Pool) : Pool[i] = v) - 1
Const(v) == <<"Constant8", C(v)>>

Function(name, arity, code) == [name |-> name, arity |-> arity, code |-> code]

RECURSIVE Repeat(_, _)
Repeat(n, code) == IF n = 0 THEN <<>> ELSE code \o Repeat(n - 1, code)

\* try { body } catch (e) { }: AppendHandler, the body, PopHandler and the jump
\* over the (empty) catch block; the caught value stays where the body's result would
Try(body) ==
    <<"AppendHandler", (Len(body) + 7) % 256, (Len(body) + 7) \div 256>>
    \o body \o <<"PopHandler", "Jump", 3, 0>>
MaybeTry(b, body) == IF b THEN Try(body) ELSE body

(***************************************************************************)
(* Call programs: the script calls f1, f1 calls f2, ... down to level d,   *)
(* which performs `effect`; each level may wrap its part in try/catch and  *)
(* starts with `pad` locals.                                               *)
(***************************************************************************)
LeafArities == {Fixed(k) : k \in 0..MaxArgc} \cup {Variadic(k) : k \in 0..MaxArgc}
Effects ==
    {[kind |-> e, argc |-> 0, arity |-> Fixed(0)] :
        e \in {"ok", "throw", "subtract", "negate", "getglobal", "setglobal", "redefine",
               "native_ok", "native_err", "get", "set"}}
    \cup {[kind |-> "call", argc |-> n, arity |-> a] : n \in 0..MaxArgc, a \in LeafArities}

EffectCode(e, leaf) ==
    CASE e.kind = "ok" -> Const(Number(1))
      [] e.kind = "throw" -> Const(String("boom")) \o <<"Throw">>
      [] e.kind = "subtract" -> Const(Number(1)) \o Const(Nil) \o <<"Subtract">>
      [] e.kind = "negate" -> Const(Nil) \o <<"Negate">>
      [] e.kind = "getglobal" -> Const(String("nope")) \o <<"GetGlobal">>
      [] e.kind = "setglobal" -> Const(Number(1)) \o Const(String("nope")) \o <<"SetGlobal">>
      [] e.kind = "redefine" ->
            Const(Number(1)) \o Const(String("size")) \o <<"DefineGlobal">> \o Const(Nil)
      [] e.kind = "native_ok" ->
            Const(String("size")) \o <<"GetGlobal">> \o Const(String("ab")) \o <<"Call", 1>>
      [] e.kind = "native_err" ->
            Const(String("size")) \o <<"GetGlobal">> \o Const(Number(1)) \o <<"Call", 1>>
      [] e.kind = "get" -> <<"BuildList", 0>> \o Const(Number(0)) \o <<"Get">>
      [] e.kind = "set" -> Const(Number(1)) \o Const(Nil) \o Const(Number(0)) \o <<"Set">>
      [] OTHER -> Const(FunctionValue(leaf)) \o <<"Closure", 0>>
                  \o Repeat(e.argc, Const(Number(3))) \o <<"Call", e.argc>>

LevelCode(i, d, tries, pad, e) ==
    Repeat(pad, Const(Number(7)))
    \o MaybeTry(i \in tries,
                IF i < d
                THEN Const(FunctionValue(i + 2)) \o <<"Closure", 0>> \o <<"Call", 0>>
                ELSE EffectCode(e, d + 2))
    \o (IF i = 0 THEN <<"Pop">> ELSE <<"Return">>)

LevelName(i) == IF i = 0 THEN "script" ELSE "f" \o NatToString(i)

CallProgram(d, tries, pad, e) ==
    [i \in 1..(d + 1) |->
        Function(LevelName(i - 1), Fixed(0), LevelCode(i - 1, d, tries, pad, e))]
    \o <<Function("leaf", e.arity, Const(Number(6)) \o Const(Number(5)) \o <<"Return">>)>>

CallPrograms ==
    {CallProgram(d, tries, pad, e) :
        d \in 0..MaxDepth, tries \in SUBSET (0..MaxDepth), pad \in 0..1, e \in Effects}

(***************************************************************************)
(* Upvalue programs.  mk declares l, x, and two closures over x (inc adds  *)
(* one to x, get reads it), optionally writes x and calls inc while x is   *)
(* on the stack, and hands [inc, get] out by return, by return after the   *)
(* block holding x was closed, or by throw.  The script then puts other    *)
(* values where mk's locals were, calls inc again and calls get.           *)
(***************************************************************************)
IncCode == <<"GetUpValue", 0>> \o Const(Number(1)) \o <<"Add", "SetUpValue", 0, "Return">>
GetCode == <<"GetUpValue", 0, "Return">>

MkCode(x0, setlocal, openincs, via) ==
    Const(Nil) \o Const(Number(x0))
    \o Const(FunctionValue(3)) \o <<"Closure", 1, 1, 2>>
    \o Const(FunctionValue(4)) \o <<"Closure", 1, 1, 2>>
    \o (IF setlocal THEN Const(Number(x0 + 4)) \o <<"SetLocal", 2, "Pop">> ELSE <<>>)
    \o Repeat(openincs, <<"GetLocal", 3, "Call", 0, "Pop">>)
    \o <<"GetLocal", 3, "GetLocal", 4, "BuildList", 2, "SetLocal", 1, "Pop">>
    \o (CASE via = "return" -> <<"GetLocal", 1, "Return">>
          [] via = "close" -> <<"Pop", "Pop", "CloseUpValue", "GetLocal", 1, "Return">>
          [] OTHER -> <<"GetLocal", 1, "Throw">>)

UpScript(closedincs, via) ==
    MaybeTry(via = "throw", Const(FunctionValue(2)) \o <<"Closure", 0, "Call", 0>>)
    \o Const(Number(9)) \o Const(Number(8)) \o Const(Number(7))
    \o Repeat(closedincs, <<"GetLocal", 1>> \o Const(Number(0)) \o <<"Get", "Call", 0, "Pop">>)
    \o <<"GetLocal", 1>> \o Const(Number(1)) \o <<"Get", "Call", 0>>

UpProgram(x0, setlocal, openincs, closedincs, via) ==
    <<Function("script", Fixed(0), UpScript(closedincs, via)),
      Function("mk", Fixed(0), MkCode(x0, setlocal, openincs, via)),
      Function("inc", Fixed(0), IncCode),
      Function("get", Fixed(0), GetCode)>>

UpPrograms ==
    {UpProgram(x0, setlocal, openincs, closedincs, via) :
        x0 \in {0, 5}, setlocal \in BOOLEAN, openincs \in 0..MaxIncs,
        closedincs \in 0..MaxIncs, via \in {"return", "close", "throw"}}

(***************************************************************************)
(* Indexing programs: a list of n numbers, an object with n properties or  *)
(* a string, then one Get or Set with `key`, inside try/catch or not.      *)
(***************************************************************************)
Names == <<"a", "b", "g", "ab", "nope", "boom", "size">>
IndexKeys ==
    {Number(i) : i \in NumLo..(MaxLen + 2)}
    \cup {Number(I32Min), Number(I32Min + 1), Number(I32Max), Nil, String("a"), String("nope")}

ContainerCode(kind, n) ==
    CASE kind = "list" ->
            [i \in 1..(2 * n) |-> IF i % 2 = 1 THEN "Constant8" ELSE C(Number(10 + i \div 2 - 1))]
            \o <<"BuildList", n>>
      [] kind = "object" ->
            [i \in 1..(4 * n) |->
                CASE i % 4 = 1 -> "Constant8"
                  [] i % 4 = 2 -> C(String(Names[(i + 3) \div 4]))
                  [] i % 4 = 3 -> "Constant8"
                  [] OTHER -> C(Number(10 + i \div 4 - 1))]
            \o <<"BuildObject", n>>
      [] kind = "number" -> Const(Number(7))
      [] kind = "bool" -> Const(Bool(TRUE))
      [] kind = "nil" -> Const(Nil)
      [] kind = "native" -> Const(String("size")) \o <<"GetGlobal">>
      [] kind = "closure" -> Const(FunctionValue(2)) \o <<"Closure", 0>>
      [] kind = "function" -> Const(FunctionValue(2))
      [] OTHER -> Const(String("ab"))

IndexProgram(kind, n, key, op, try) ==
    <<Function("script", Fixed(0),
        ContainerCode(kind, n)
        \o MaybeTry(try,
              IF op = "Get"
              THEN <<"GetLocal", 1>> \o Const(key) \o <<"Get">>
              ELSE Const(Number(9)) \o <<"GetLocal", 1>> \o Const(key) \o <<"Set">>)
        \o <<"Pop">>),
      Function("f1", Fixed(0), Const(Number(5)) \o <<"Return">>)>>

\* the values that are no string, list or object
OtherKinds == {"number", "bool", "nil", "native", "closure", "function"}

IndexPrograms ==
    {IndexProgram(kind, n, key, op, try) :
        kind \in {"list", "object", "string"}, n \in 0..MaxLen, key \in IndexKeys,
        op \in {"Get", "Set"}, try \in BOOLEAN}
       \cup {IndexProgram(kind, 0, key, op, try) :
                kind \in OtherKinds, key \in {Number(0), String("a")},
                op \in {"Get", "Set"}, try \in BOOLEAN}

\* arithmetic: two operands of any kinds, then Add or Subtract
OperandKinds == {"number", "string", "nil", "bool", "list"}
ArithProgram(ka, kb, op, try) ==
    <<Function("script", Fixed(0),
        MaybeTry(try, ContainerCode(ka, 0) \o ContainerCode(kb, 0) \o <<op>>) \o <<"Pop">>)>>

ArithPrograms ==
    {ArithProgram(ka, kb, op, try) :
        ka \in OperandKinds, kb \in OperandKinds, op \in {"Add", "Subtract"}, try \in BOOLEAN}

\* globals: define g, assign it, read it
GlobalProgram ==
    <<Function("script", Fixed(0),
        Const(Number(1)) \o Const(String("g")) \o <<"DefineGlobal">>
        \o Const(Number(2)) \o Const(String("g")) \o <<"SetGlobal", "Pop">>
        \o Const(String("g")) \o <<"GetGlobal">> \o Const(Number(1)) \o <<"Subtract", "Negate", "Pop">>)>>

(***************************************************************************)
(* Aliasing programs: the script holds a collection of one element in      *)
(* local 1, sets its element through one copy and gets it through          *)
(* another; a copy is made by GetLocal, by GetGlobal (of a global defined  *)
(* from the local), by GetUpValue in a closure over the local, or by       *)
(* passing the local as an argument.                                       *)
(***************************************************************************)
AliasValue == Number(5)
AliasKey(kind) == IF kind = "list" THEN Number(0) ELSE String("a")
AliasVias == {"local", "global", "upvalue", "argument"}

\* `first` is the value that Set stores (empty for Get), `op` is Set or Get
AliasAccess(kind, via, first, op, setter) ==
    CASE via = "local" -> first \o <<"GetLocal", 1>> \o Const(AliasKey(kind)) \o <<op>>
      [] via = "global" ->
            first \o Const(String("g")) \o <<"GetGlobal">> \o Const(AliasKey(kind)) \o <<op>>
      [] via = "upvalue" ->
            Const(FunctionValue(setter + 2)) \o <<"Closure", 1, 1, 1, "Call", 0>>
      [] OTHER -> Const(FunctionValue(setter)) \o <<"Closure", 0, "GetLocal", 1, "Call", 1>>

AliasProgram(kind, setvia, getvia) ==
    <<Function("script", Fixed(0),
        ContainerCode(kind, 1)
        \o (IF "global" \in {setvia, getvia}
            THEN <<"GetLocal", 1>> \o Const(String("g")) \o <<"DefineGlobal">> ELSE <<>>)
        \o AliasAccess(kind, setvia, Const(AliasValue), "Set", 2) \o <<"Pop">>
        \o AliasAccess(kind, getvia, <<>>, "Get", 3) \o <<"Pop", "CloseUpValue">>),
      Function("set_arg", Fixed(1),
        Const(AliasValue) \o <<"GetLocal", 1>> \o Const(AliasKey(kind)) \o <<"Set", "Return">>),
      Function("get_arg", Fixed(1),
        <<"GetLocal", 1>> \o Const(AliasKey(kind)) \o <<"Get", "Return">>),
      Function("set_up", Fixed(0),
        Const(AliasValue) \o <<"GetUpValue", 0>> \o Const(AliasKey(kind)) \o <<"Set", "Return">>),
      Function("get_up", Fixed(0),
        <<"GetUpValue", 0>> \o Const(AliasKey(kind)) \o <<"Get", "Return">>)>>

AliasPrograms ==
    {AliasProgram(kind, setvia, getvia) :
        kind \in {"list", "object"}, setvia \in AliasVias, getvia \in AliasVias}

(***************************************************************************)
(* Handler programs: one frame (the script's, or that of a function the    *)
(* script calls) runs                                                      *)
(*     try { try { A } catch (e) { B }  C } catch (e) { }  D               *)
(* where each of A..D does nothing, throws, calls a function that throws,  *)
(* calls a native that throws, makes the VM detect an error, or returns;   *)
(* the value thrown at the n-th place is the number n.                     *)
(***************************************************************************)
\* the number of (Constant8, Pop) pairs in the body of the long try
LongBody == 86

TryCatch(body, catch) ==
    <<"AppendHandler", (Len(body) + 7) % 256, (Len(body) + 7) \div 256>> \o body
    \o <<"PopHandler", "Jump", 3 + Len(catch), 0>> \o catch

Thrower(how, n) ==
    CASE how = "throw" -> Const(Number(n)) \o <<"Throw">>
      [] how = "callee" -> Const(FunctionValue(n + 1)) \o <<"Closure", 0, "Call", 0>>
      [] how = "native" ->
            Const(String("size")) \o <<"GetGlobal">> \o Const(Number(n)) \o <<"Call", 1>>
      [] how = "vmerror" -> Const(Nil) \o <<"Negate">>
      [] how = "return" -> Const(Nil) \o <<"Return">>
      [] OTHER -> Const(Nil)

HandlerBody(a, b, c, d) ==
    Const(Number(7))
    \o TryCatch(Const(Number(8))
                \o TryCatch(Const(Number(9)) \o Thrower(a, 1), Thrower(b, 2) \o <<"Pop">>)
                \o <<"Pop">> \o Thrower(c, 3),
                <<>>)
    \o <<"Pop">> \o Thrower(d, 4) \o <<"Pop">>

HandlerProgram(a, b, c, d, callee, try) ==
    <<Function("script", Fixed(0),
        IF callee
        THEN MaybeTry(try, Const(FunctionValue(6)) \o <<"Closure", 0, "Call", 0>>)
             \o <<"Pop">> \o Thrower(d, 4) \o <<"Pop">>
        ELSE HandlerBody(a, b, c, d)),
      Function("throw1", Fixed(0), Const(Number(1)) \o <<"Throw">>),
      Function("throw2", Fixed(0), Const(Number(2)) \o <<"Throw">>),
      Function("throw3", Fixed(0), Const(Number(3)) \o <<"Throw">>),
      Function("throw4", Fixed(0), Const(Number(4)) \o <<"Throw">>),
      Function("host", Fixed(0), HandlerBody(a, b, c, d) \o Const(Nil) \o <<"Return">>)>>

HandlerPrograms ==
    {HandlerProgram(a, b, c, d, callee, try) :
        a \in {"none", "throw", "callee", "native", "vmerror", "return"},
        b \in {"none", "throw", "callee"},
        c \in {"none", "throw", "callee", "return"},
        d \in {"none", "throw"},
        callee \in BOOLEAN, try \in BOOLEAN}

\* a try whose body is longer than 255 bytes and ends in a throw: the offset of
\* its catch block does not fit the first operand byte
LongTryProgram ==
    <<Function("script", Fixed(0),
        TryCatch(Repeat(LongBody, Const(Nil) \o <<"Pop">>) \o Const(Number(1)) \o <<"Throw">>,
                 <<"Pop">>))>>

(***************************************************************************)
(* Capture programs: the script declares x = 1 and y = 2 and the closure   *)
(* mid over x; mid builds the closure inner, whose one upvalue is upvalue  *)
(* 0 of mid (is_local = false), and returns it; the script calls inner.    *)
(* mid is called by the script, or by a closure over y, or by one over x.  *)
(***************************************************************************)
CaptureProgram(caller) ==
    <<Function("script", Fixed(0),
        Const(Number(1)) \o Const(Number(2))
        \o Const(FunctionValue(2)) \o <<"Closure", 1, 1, 1>>
        \o (IF caller = "script" THEN <<"GetLocal", 3, "Call", 0>>
            ELSE <<"GetLocal", 3>> \o Const(String("g")) \o <<"DefineGlobal">>
                 \o Const(FunctionValue(4))
                 \o <<"Closure", 1, 1, IF caller = "over_y" THEN 2 ELSE 1>>
                 \o <<"Call", 0>>)
        \o <<"Call", 0, "Pop", "Pop", "CloseUpValue", "CloseUpValue">>),
      Function("mid", Fixed(0), Const(FunctionValue(3)) \o <<"Closure", 1, 0, 0, "Return">>),
      Function("inner", Fixed(0), <<"GetUpValue", 0, "Return">>),
      Function("other", Fixed(0), Const(String("g")) \o <<"GetGlobal", "Call", 0, "Return">>)>>

CapturePrograms == {CaptureProgram(caller) : caller \in {"script", "over_y", "over_x"}}

\* { var f; var x = 1; f = a closure over x; throw "boom" }: an unhandled throw
\* while the captured x is the topmost local
DanglingProgram ==
    <<Function("script", Fixed(0),
        Const(Nil) \o Const(Number(1))
        \o Const(FunctionValue(2)) \o <<"Closure", 1, 1, 2, "SetLocal", 1, "Pop">>
        \o Const(String("boom")) \o <<"Throw">>),
      Function("get", Fixed(0), <<"GetUpValue", 0, "Return">>)>>

\* scripts whose statements leave the stack as they found it: an expression
\* statement, a call, a throw that is caught, and throws that are not: at the
\* top level, below a block's local, in a called function
RunKinds == {"ends", "calls", "caught", "throws", "throws_in_block", "throws_in_call"}
RunProgram(kind) ==
    <<Function("script", Fixed(0),
        CASE kind = "ends" -> Const(Number(1)) \o <<"Pop">>
          [] kind = "calls" -> Const(FunctionValue(2)) \o <<"Closure", 0, "Call", 0, "Pop">>
          [] kind = "caught" -> Try(Const(String("boom")) \o <<"Throw">>) \o <<"Pop">>
          [] kind = "throws" -> Const(String("boom")) \o <<"Throw">>
          [] kind = "throws_in_block" ->
                Const(Number(1)) \o Const(String("boom")) \o <<"Throw", "Pop">>
          [] kind = "throws_in_call" ->
                Const(FunctionValue(3)) \o <<"Closure", 0, "Call", 0, "Pop">>),
      Function("leaf", Fixed(0), Const(Number(1)) \o <<"Return">>),
      Function("thrower", Fixed(0), Const(String("boom")) \o <<"Throw">>)>>
RunPrograms == {RunProgram(kind) : kind \in RunKinds}

\* v(), and v(1), for a value v that is neither a closure nor a native, inside
\* try/catch or not
NonCallables == {Number(1), Nil, String("a"), Bool(TRUE)}
NonCallableProgram(v, argc, try) ==
    <<Function("script", Fixed(0),
        MaybeTry(try, Const(v) \o Repeat(argc, Const(Number(1))) \o <<"Call", argc>>)
        \o <<"Pop">>)>>
NonCallablePrograms ==
    {NonCallableProgram(v, argc, try) : v \in NonCallables, argc \in 0..1, try \in BOOLEAN}

\* { var x = 1; var y = 2; f = a closure over x; g = a closure over y and x }
SharedSlotProgram ==
    <<Function("script", Fixed(0),
        Const(Number(1)) \o Const(Number(2))
        \o Const(FunctionValue(2)) \o <<"Closure", 1, 1, 1>>
        \o Const(FunctionValue(3)) \o <<"Closure", 2, 1, 2, 1, 1>>
        \o <<"Call", 0, "Pop", "Pop", "CloseUpValue", "CloseUpValue">>),
      Function("get", Fixed(0), <<"GetUpValue", 0, "Return">>),
      Function("both", Fixed(0), <<"GetUpValue", 0, "SetUpValue", 1, "Return">>)>>

\* a = g = o.a = l[0] = 5, for the local a, the global g, the object o and the
\* list l
ChainProgram ==
    <<Function("script", Fixed(0),
        Const(Nil) \o ContainerCode("list", 1) \o ContainerCode("object", 0)
        \o Const(Number(1)) \o Const(String("g")) \o <<"DefineGlobal">>
        \o Const(Number(5))
        \o <<"GetLocal", 2>> \o Const(Number(0)) \o <<"Set">>
        \o <<"GetLocal", 3>> \o Const(String("a")) \o <<"Set">>
        \o Const(String("g")) \o <<"SetGlobal", "SetLocal", 1, "Pop">>)>>

\* two global instructions in a row, each on a name that is a native's, that
\* the first instruction may have defined, or that nothing defines
GlobalNames == {"size", "g", "b"}
GlobalOps == {"DefineGlobal", "SetGlobal", "GetGlobal"}
GlobalCode(op, name) ==
    CASE op = "DefineGlobal" -> Const(Number(1)) \o Const(String(name)) \o <<"DefineGlobal">>
      [] op = "SetGlobal" -> Const(Number(2)) \o Const(String(name)) \o <<"SetGlobal", "Pop">>
      [] OTHER -> Const(String(name)) \o <<"GetGlobal", "Pop">>

GlobalPrograms ==
    {<<Function("script", Fixed(0), GlobalCode(o1, n1) \o GlobalCode(o2, n2))>> :
        o1 \in GlobalOps, n1 \in {"size", "g"}, o2 \in GlobalOps, n2 \in GlobalNames}

(***************************************************************************)
(* Programs of the value instructions: a binary instruction on two         *)
(* constants; a quotient, remainder or product put through a second        *)
(* instruction; a conditional jump over a Not; a counting loop; constants  *)
(* loaded with a two-byte index.                                           *)
(***************************************************************************)
BinaryOps ==
    {"Multiply", "Divide", "Remainder", "Equal", "Greater", "GreaterEqual", "Less",
     "LessEqual"}
BinaryOperands == {Number(0), Number(3), Number(-2), Nil, String("a"), Bool(FALSE)}
BinaryProgram(a, b, op) ==
    <<Function("script", Fixed(0), Const(a) \o Const(b) \o <<op, "Pop">>)>>

SecondOps == BinaryOps \cup {"Add", "Subtract"}
Numerals == {Number(0), Number(3), Number(-2)}
SecondProgram(a, b, first, negate, c, second) ==
    <<Function("script", Fixed(0),
        Const(a) \o Const(b) \o <<first>> \o (IF negate THEN <<"Negate">> ELSE <<>>)
        \o Const(c) \o <<second>> \o Const(String("a")) \o <<"Add", "Pop">>)>>

\* if (v) { !v }: the jump lands on the Pop behind the Not
BranchProgram(v, op) ==
    <<Function("script", Fixed(0), Const(v) \o <<op, 4, 0, "Not", "Pop">>)>>

\* var i = 2; while (i > 0) { i = i - 1 }
WhileProgram ==
    <<Function("script", Fixed(0),
        Const(Number(2))
        \o <<"GetLocal", 1>> \o Const(Number(0)) \o <<"Greater", "JumpIfFalse", 15, 0, "Pop">>
        \o <<"GetLocal", 1>> \o Const(Number(1)) \o <<"Subtract", "SetLocal", 1, "Pop">>
        \o <<"Loop", 17, 0, "Pop", "Pop">>)>>

\* jumps forwards and backwards over one another, and a Loop to before the chunk
JumpsProgram(back) ==
    <<Function("script", Fixed(0),
        <<"Jump", 6, 0, "Jump", 6, 0, "Loop", back, 0>> \o Const(Nil) \o <<"Pop">>)>>

Constant16Program(v) ==
    <<Function("script", Fixed(0), <<"Constant16", C(v), 0, "Pop">>)>>

ValuePrograms ==
    {BinaryProgram(a, b, op) : a \in BinaryOperands, b \in BinaryOperands, op \in BinaryOps}
    \cup {SecondProgram(a, b, first, negate, c, second) :
             a \in Numerals, b \in Numerals, first \in {"Multiply", "Divide", "Remainder"},
             negate \in BOOLEAN, c \in Numerals, second \in SecondOps}
    \cup {BranchProgram(v, op) :
             v \in {Nil, Bool(TRUE), Bool(FALSE), Number(0), String("a")},
             op \in {"JumpIfFalse", "JumpIfTrue"}}
    \cup {JumpsProgram(back) : back \in {3, 7}}
    \cup {Constant16Program(v) : v \in {Nil, String("boom"), Bool(FALSE)}}
    \cup {WhileProgram}

(***************************************************************************)
(* A closure over the topmost local, made global, and then a Throw of that *)
(* local under a handler: the cell's slot is the one the instruction pops  *)
(* before the stack is cut.                                                *)
(***************************************************************************)
TopThrowProgram ==
    <<Function("script", Fixed(0),
        <<"AppendHandler", 15, 0>> \o Const(Number(5))
        \o Const(FunctionValue(2)) \o <<"Closure", 1, 1, 1>>
        \o Const(String("g")) \o <<"DefineGlobal", "Throw", "Pop">>),
      Function("get", Fixed(0), <<"GetUpValue", 0, "Return">>)>>

(***************************************************************************)
(* Chunks no compiler output has: an instruction on a stack that is too    *)
(* short for it, and a byte that is no instruction.  And sums, products    *)
(* and quotients of tenths, which f64 rounds.                              *)
(***************************************************************************)
MalformedPrograms ==
    {<<Function("script", Fixed(0), code)>> :
        code \in {<<"Pop", "Pop">>, <<"Pop", "Return">>, Const(Nil) \o <<"Unknown">>,
                  <<"Pop", "Negate">>, <<"Pop">> \o Const(Nil) \o <<"Equal">>,
                  <<"Pop", "Throw">>, <<"Pop", "CloseUpValue">>, <<"GetLocal", 1>>,
                  <<"Pop", "Call", 0>>, <<"Constant8">>}}

Tenths(n) == Const(Number(n)) \o Const(Number(10)) \o <<"Divide">>
RoundingProgram(a, first, b, second) ==
    <<Function("script", Fixed(0),
        Tenths(a) \o Tenths(b) \o <<first>> \o Tenths(3) \o <<second>>
        \o Const(String("a")) \o <<"Add", "Pop">>)>>
RoundingPrograms ==
    {RoundingProgram(a, first, b, second) :
        a \in {1, 3}, first \in {"Add", "Subtract", "Multiply", "Divide", "Remainder"},
        b \in {1, 2}, second \in {"Equal", "Less", "Subtract", "Remainder"}}

Programs ==
    MalformedPrograms \cup RoundingPrograms \cup
    CallPrograms \cup UpPrograms \cup IndexPrograms \cup ArithPrograms
    \cup GlobalPrograms \cup AliasPrograms \cup HandlerPrograms
    \cup CapturePrograms \cup RunPrograms \cup NonCallablePrograms
    \cup ValuePrograms
    \cup {GlobalProgram, LongTryProgram, DanglingProgram, ChainProgram,
           SharedSlotProgram, TopThrowProgram}

(***************************************************************************)
(* Parser state of the VM specification, and the initial states.           *)
(***************************************************************************)
NoTok == [typ |-> "None", pos |-> 0]
NoExpr == [kind |-> "None", tok |-> NoTok, kids |-> <<>>]
NoParse == [done |-> FALSE, ok |-> FALSE, expr |-> NoExpr, errs |-> <<>>, cur |-> 0,
            panic |-> FALSE]
NoAst == [done |-> FALSE, by |-> "None", ok |-> FALSE, nodes |-> <<>>, errs |-> <<>>,
          had_err |-> FALSE, cur |-> 0, prev |-> 0, decls |-> <<>>, starts |-> <<>>,
          failed |-> <<>>, resumed |-> <<>>]

\* Vm::new: empty stack, the natives registered as globals
Init ==
    /\ status = "ready"
    /\ functions \in Programs
    /\ stack = <<>>
    /\ globals = [n \in Natives |-> NativeValue(n)]
    /\ open_up_values = <<>>
    /\ up_values = <<>>
    /\ closures = <<>>
    /\ lists = <<>>
    /\ objects = <<>>
    /\ frames = <<>>
    /\ err = NoErr
    /\ reported = NoToken
    /\ written = <<>>
    /\ thrown = NoThrown
    /\ ev = NoEv
    /\ tokens = <<>>
    /\ parsed = NoParse
    /\ ast = NoAst

Next ==
    \/ Run \/ RunEnd \/ EndOfChunk
    \/ Pop \/ Constant8 \/ Constant16 \/ Negate \/ Not
    \/ Add \/ Subtract \/ Multiply \/ Divide \/ Remainder
    \/ Equal \/ Greater \/ GreaterEqual \/ Less \/ LessEqual
    \/ Jump \/ JumpIfFalse \/ JumpIfTrue \/ Loop
    \/ DefineGlobal \/ SetGlobal \/ GetGlobal \/ GetLocal \/ SetLocal
    \/ BuildList \/ BuildObject \/ Get \/ Set
    \/ Closure \/ Call \/ Return \/ GetUpValue \/ SetUpValue \/ CloseUpValue
    \/ AppendHandler \/ PopHandler \/ Throw \/ Unknown \/ CallErr

Spec == Init /\ [][Next]_vars

(***************************************************************************)
(* The expression parser (src/src/parser.rs).  The input is the token      *)
(* stream the tokenizer hands out, one token type per position; a token is *)
(* its type and its position.  The parser's own state is the index of      *)
(* `current`, the index of `previous` and the diagnostics recorded so far. *)
(* Every parsing function takes that state and returns the Result together *)
(* with the state it leaves.                                               *)
(***************************************************************************)
Op(prefix, infix, postfix, assoc) ==
    [prefix |-> prefix, infix |-> infix, postfix |-> postfix, assoc |-> assoc]

None == 0

\* the table with the precedences of two levels exchanged
OPERATORS_levels_exchanged ==
    << Op(None, None, 1, "None"), Op(None, None, None, "None"), Op(None, None, None, "None"),
       Op(None, None, None, "None"), Op(None, None, 1, "None"), Op(None, None, None, "None"),
       Op(None, None, 1, "None"),
       Op(None, 3, None, "Left"), Op(2, 3, None, "Left"),
       Op(None, 4, None, "Left"), Op(None, 4, None, "Left"), Op(None, 4, None, "Left"),
       Op(None, None, None, "None"), Op(None, None, None, "None"), Op(None, None, None, "None"),
       Op(None, 9, None, "Right"),
       Op(None, 6, None, "Left"), Op(2, None, None, "None"), Op(None, 6, None, "Left"),
       Op(None, 5, None, "Left"), Op(None, 5, None, "Left"),
       Op(None, 5, None, "Left"), Op(None, 5, None, "Left"),
       Op(None, 8, None, "Left"), Op(None, 7, None, "Left") >>

\* the table with the prefix operators binding looser than `*` and `+`
OPERATORS_prefix_loose ==
    << Op(None, None, 1, "None"), Op(None, None, None, "None"), Op(None, None, None, "None"),
       Op(None, None, None, "None"), Op(None, None, 1, "None"), Op(None, None, None, "None"),
       Op(None, None, 1, "None"),
       Op(None, 4, None, "Left"), Op(5, 4, None, "Left"),
       Op(None, 3, None, "Left"), Op(None, 3, None, "Left"), Op(None, 3, None, "Left"),
       Op(None, None, None, "None"), Op(None, None, None, "None"), Op(None, None, None, "None"),
       Op(None, 9, None, "Right"),
       Op(None, 6, None, "Left"), Op(5, None, None, "None"), Op(None, 6, None, "Left"),
       Op(None, 5, None, "Left"), Op(None, 5, None, "Left"),
       Op(None, 5, None, "Left"), Op(None, 5, None, "Left"),
       Op(None, 7, None, "Left"), Op(None, 8, None, "Left") >>

\* rows 0..24 of the table; rows 25..47 are all (None, None, None, None)
OPERATORS ==
    << Op(None, None, 1, "None"),      \* 0
       Op(None, None, None, "None"),   \* 1
       Op(None, None, None, "None"),   \* 2
       Op(None, None, None, "None"),   \* 3
       Op(None, None, 1, "None"),      \* 4
       Op(None, None, None, "None"),   \* 5
       Op(None, None, 1, "None"),      \* 6
       Op(None, 4, None, "Left"),      \* 7
       Op(2, 4, None, "Left"),         \* 8
       Op(None, 3, None, "Left"),      \* 9
       Op(None, 3, None, "Left"),      \* 10
       Op(None, 3, None, "Left"),      \* 11
       Op(None, None, None, "None"),   \* 12
       Op(None, None, None, "None"),   \* 13
       Op(None, None, None, "None"),   \* 14
       Op(None, 9, None, "Right"),     \* 15
       Op(None, 6, None, "Left"),      \* 16
       Op(2, None, None, "None"),      \* 17
       Op(None, 6, None, "Left"),      \* 18
       Op(None, 5, None, "Left"),      \* 19
       Op(None, 5, None, "Left"),      \* 20
       Op(None, 5, None, "Left"),      \* 21
       Op(None, 5, None, "Left"),      \* 22
       Op(None, 7, None, "Left"),      \* 23
       Op(None, 8, None, "Left") >>    \* 24

\* usize::from(TokenType): the row of a token type in OPERATORS
Row(typ) ==
    CASE typ = "OParen" -> 0
      [] typ = "CParen" -> 1
      [] typ = "OBrace" -> 2
      [] typ = "CBrace" -> 3
      [] typ = "OBracket" -> 4
      [] typ = "CBracket" -> 5
      [] typ = "Period" -> 6
      [] typ = "Plus" -> 7
      [] typ = "Minus" -> 8
      [] typ = "Star" -> 9
      [] typ = "Slash" -> 10
      [] typ = "Percent" -> 11
      [] typ = "Comma" -> 12
      [] typ = "Colon" -> 13
      [] typ = "Equal" -> 15
      [] typ = "DEqual" -> 16
      [] typ = "Bang" -> 17
      [] typ = "BangEqual" -> 18
      [] typ = "Greater" -> 19
      [] typ = "GreaterEqual" -> 20
      [] typ = "Less" -> 21
      [] typ = "LessEqual" -> 22
      [] typ = "And" -> 23
      [] typ = "Or" -> 24
      [] OTHER -> 25

Operator(typ) == IF Row(typ) < Len(OPERATORS) THEN OPERATORS[Row(typ) + 1]
                 ELSE Op(None, None, None, "None")

INVALID_TYPES == {"Unknown", "UnTermedString", "InvalidNumber"}

\* the token at index i of the stream; the tokenizer answers EOF from the end on
TokenAt(i) ==
    IF i >= 1 /\ i <= Len(tokens) THEN [typ |-> tokens[i], pos |-> i]
    ELSE [typ |-> "EOF", pos |-> Len(tokens) + 1]

\* the index of the first token after i that is not a comment
NextIdx(i) ==
    CHOOSE j \in (i + 1)..(Len(tokens) + 1) :
        /\ TokenAt(j).typ # "Comment"
        /\ \A k \in (i + 1)..(j - 1) : TokenAt(k).typ = "Comment"

\* Parser::new: `current` and `previous` are None (index 0); `panic` records that
\* the parser met an `unreachable!()`
NewParser == [cur |-> 0, prev |-> 0, errs |-> <<>>, panic |-> FALSE]

\* Expr and Literal
ExprVariable(t) == [kind |-> "Variable", tok |-> t, kids |-> <<>>]
ExprLiteral(kind, t, items) == [kind |-> kind, tok |-> t, kids |-> items]
ExprUnary(t, right) == [kind |-> "Unary", tok |-> t, kids |-> <<right>>]
ExprBinary(t, left, right) == [kind |-> "Binary", tok |-> t, kids |-> <<left, right>>]
ExprCall(t, callee, args) == [kind |-> "Call", tok |-> t, kids |-> <<callee>> \o args]
ExprGet(t, e, key) == [kind |-> "Get", tok |-> t, kids |-> <<e, key>>]
ExprSet(t, e, key, value) == [kind |-> "Set", tok |-> t, kids |-> <<e, key, value>>]

\* Result<_, ()> with the parser it leaves
POk(p, e) == [ok |-> TRUE, p |-> p, expr |-> e, items |-> <<>>]
POkItems(p, items) == [ok |-> TRUE, p |-> p, expr |-> NoExpr, items |-> items]
PErr(p) == [ok |-> FALSE, p |-> p, expr |-> NoExpr, items |-> <<>>]

\* reporter.error(Report::new(Phase::Parsing, msg, token))
report(p, msg, token) == [p EXCEPT !.errs = Append(@, [msg |-> msg, token |-> token])]

peek(p) == TokenAt(p.cur)
previous(p) == TokenAt(p.prev)
check(p, typ) == peek(p).typ = typ
at_end(p) == check(p, "EOF")

check_current(p) == peek(p).typ \notin INVALID_TYPES

advance_to(q) == IF check_current(q) THEN POk(q, NoExpr) ELSE PErr(q)

advance(p) ==
    IF p.cur >= 1 /\ peek(p).typ = "EOF"
    THEN POk(p, NoExpr)
    ELSE advance_to([p EXCEPT !.prev = p.cur, !.cur = NextIdx(p.cur)])

consume(p, typ, msg) ==
    IF check(p, typ) THEN advance(p) ELSE PErr(report(p, msg, peek(p)))

(***************************************************************************)
(* The parsing functions.  Where the source binds a Result and goes on     *)
(* (`let x = f()?; ...`), the part that goes on is an operator of its own  *)
(* taking the Result: `?` is its IF ~x.ok THEN PErr(x.p).                  *)
(***************************************************************************)
RECURSIVE expr(_, _, _)
RECURSIVE expr_loop(_, _, _, _)
RECURSIVE exprs_loop(_, _)
RECURSIVE object_loop(_, _)

\* consume(closing token)?; Ok(e)
closed(c, e) == IF c.ok THEN POk(c.p, e) ELSE PErr(c.p)

exprs_first(r) == IF r.ok THEN exprs_loop(r.p, <<r.expr>>) ELSE PErr(r.p)

exprs(p) == exprs_first(expr(p, 9, TRUE))

exprs_item(r, items) == IF r.ok THEN exprs_loop(r.p, Append(items, r.expr)) ELSE PErr(r.p)

exprs_next(a, items) ==
    IF ~a.ok THEN PErr(a.p)
    ELSE IF peek(a.p).typ \in {"CBracket", "CParen"} THEN POkItems(a.p, items)
    ELSE exprs_item(expr(a.p, 9, TRUE), items)

\* the `while self.check(TokenType::Comma)` of exprs
exprs_loop(p, items) ==
    IF ~check(p, "Comma") THEN POkItems(p, items) ELSE exprs_next(advance(p), items)

list_close(r) ==
    IF ~r.ok THEN PErr(r.p)
    ELSE closed(consume(r.p, "CBracket", "expected ']' after the list"),
                ExprLiteral("List", NoTok, r.items))

list(p) == list_close(IF check(p, "CBracket") THEN POkItems(p, <<>>) ELSE exprs(p))

\* a (key, value) pair, as the two items <<Variable(key), value>>
property_value(r, key) ==
    IF r.ok THEN POkItems(r.p, <<ExprVariable(key), r.expr>>) ELSE PErr(r.p)

property_colon(d, key) ==
    IF ~d.ok THEN PErr(d.p) ELSE property_value(expr(d.p, 9, TRUE), key)

property_name(c) ==
    IF ~c.ok THEN PErr(c.p)
    ELSE property_colon(consume(c.p, "Colon", "expected ':' after the name"), previous(c.p))

property(p) == property_name(consume(p, "Identifier", "expected a property name"))

object_item(r, items) == IF r.ok THEN object_loop(r.p, items \o r.items) ELSE PErr(r.p)

object_next(a, items) ==
    IF ~a.ok THEN PErr(a.p)
    ELSE IF check(a.p, "CBrace") THEN POkItems(a.p, items)
    ELSE object_item(property(a.p), items)

\* the `while self.check(TokenType::Comma)` of object
object_loop(p, items) ==
    IF ~check(p, "Comma") THEN POkItems(p, items) ELSE object_next(advance(p), items)

object_first(f) == IF f.ok THEN object_loop(f.p, f.items) ELSE PErr(f.p)

object_close(r) ==
    IF ~r.ok THEN PErr(r.p)
    ELSE closed(consume(r.p, "CBrace", "expected '}' after the list"),
                ExprLiteral("Object", NoTok, r.items))

object(p) ==
    object_close(IF check(p, "CBrace") THEN POkItems(p, <<>>) ELSE object_first(property(p)))

literal_of(p, token) ==
    CASE token.typ = "Identifier" -> POk(p, ExprVariable(token))
      [] token.typ = "Number" -> POk(p, ExprLiteral("Number", token, <<>>))
      [] token.typ = "String" -> POk(p, ExprLiteral("String", token, <<>>))
      [] token.typ \in {"True", "False"} -> POk(p, ExprLiteral("Bool", token, <<>>))
      [] token.typ = "Nil" -> POk(p, ExprLiteral("Nil", token, <<>>))
      [] token.typ = "OBracket" -> list(p)
      [] token.typ = "OBrace" -> object(p)

literal(p) == literal_of(p, previous(p))

unary_operand(r, token) == IF r.ok THEN POk(r.p, ExprUnary(token, r.expr)) ELSE PErr(r.p)

unary(p) == unary_operand(expr(p, Operator(previous(p).typ).prefix, FALSE), previous(p))

group_close(r) ==
    IF ~r.ok THEN PErr(r.p)
    ELSE closed(consume(r.p, "CParen", "expected ')' to close the group"), r.expr)

group(p) == group_close(expr(p, 9, TRUE))

\* every operator taken as right-associative
rhs_precedence_right(associativity, infix_precedence) == infix_precedence

\* the precedence the right operand of an infix operator is parsed at
rhs_precedence(associativity, infix_precedence) ==
    IF associativity = "Right" THEN infix_precedence ELSE infix_precedence - 1

\* the Get/Set split after `.name` and after `[key]`
set_value(r, token, e, key, min_precedence, can_assign) ==
    IF r.ok THEN expr_loop(r.p, ExprSet(token, e, key, r.expr), min_precedence, can_assign)
    ELSE PErr(r.p)

set_equal(n, e, key, min_precedence, can_assign, postfix_precedence) ==
    IF ~n.ok THEN PErr(n.p)
    ELSE IF ~can_assign
         THEN PErr(report(n.p, "the right-hand side is invalid", previous(n.p)))
         ELSE set_value(expr(n.p, postfix_precedence, TRUE), previous(n.p), e, key,
                        min_precedence, can_assign)

get_or_set(p, token, e, key, min_precedence, can_assign, postfix_precedence) ==
    IF check(p, "Equal")
    THEN set_equal(advance(p), e, key, min_precedence, can_assign, postfix_precedence)
    ELSE expr_loop(p, ExprGet(token, e, key), min_precedence, can_assign)

\* the infix branch of the loop, after self.advance()
binary_right(r, token, e, min_precedence, can_assign) ==
    IF r.ok THEN expr_loop(r.p, ExprBinary(token, e, r.expr), min_precedence, can_assign)
    ELSE PErr(r.p)

infix(a, token, e, min_precedence, can_assign) ==
    IF ~a.ok THEN PErr(a.p)
    ELSE IF token.typ = "Equal" /\ ~can_assign
         THEN PErr(report(a.p, "the right-hand side is invalid", token))
         ELSE binary_right(expr(a.p,
                                rhs_precedence(Operator(token.typ).assoc,
                                               Operator(token.typ).infix),
                                can_assign),
                           token, e, min_precedence, can_assign)

\* the postfix branch of the loop, after self.advance()
call_close(c, token, e, args, min_precedence, can_assign) ==
    IF c.ok THEN expr_loop(c.p, ExprCall(token, e, args), min_precedence, can_assign)
    ELSE PErr(c.p)

call_args(r, token, e, min_precedence, can_assign) ==
    IF ~r.ok THEN PErr(r.p)
    ELSE call_close(consume(r.p, "CParen", "expected ')' after the list"), token, e, r.items,
                    min_precedence, can_assign)

period_name(c, token, e, min_precedence, can_assign, postfix_precedence) ==
    IF ~c.ok THEN PErr(c.p)
    ELSE get_or_set(c.p, token, e, ExprVariable(previous(c.p)), min_precedence, can_assign,
                    postfix_precedence)

bracket_close(c, token, e, key, min_precedence, can_assign, postfix_precedence) ==
    IF ~c.ok THEN PErr(c.p)
    ELSE get_or_set(c.p, token, e, key, min_precedence, can_assign, postfix_precedence)

bracket_key(k, token, e, min_precedence, can_assign, postfix_precedence) ==
    IF ~k.ok THEN PErr(k.p)
    ELSE bracket_close(consume(k.p, "CBracket", "expected ']' after the expression"),
                       token, e, k.expr, min_precedence, can_assign, postfix_precedence)

postfix(a, token, e, min_precedence, can_assign, postfix_precedence) ==
    IF ~a.ok THEN PErr(a.p)
    ELSE CASE token.typ = "OParen" ->
                call_args(IF check(a.p, "CParen") THEN POkItems(a.p, <<>>) ELSE exprs(a.p),
                          token, e, min_precedence, can_assign)
           [] token.typ = "Period" ->
                period_name(consume(a.p, "Identifier", "expected a property name"),
                            token, e, min_precedence, can_assign, postfix_precedence)
           [] token.typ = "OBracket" ->
                bracket_key(expr(a.p, 9, TRUE), token, e, min_precedence, can_assign,
                            postfix_precedence)

\* one turn of the loop on the token `self.peek()`
expr_token(p, token, e, min_precedence, can_assign) ==
    IF Operator(token.typ).infix # None
    THEN IF min_precedence < Operator(token.typ).infix THEN POk(p, e)
         ELSE infix(advance(p), token, e, min_precedence,
                    IF token.typ # "Equal" THEN FALSE ELSE can_assign)
    ELSE IF Operator(token.typ).postfix # None
    THEN IF min_precedence < Operator(token.typ).postfix THEN POk(p, e)
         ELSE postfix(advance(p), token, e, min_precedence, can_assign,
                      Operator(token.typ).postfix)
    ELSE POk(p, e)

\* the `while !self.at_end()` of expr, entered with the expression built so far
expr_loop(p, e, min_precedence, can_assign) ==
    IF at_end(p) THEN POk(p, e) ELSE expr_token(p, peek(p), e, min_precedence, can_assign)

\* the `match token.typ` on the token self.next() returned
prefix(p, token) ==
    CASE token.typ \in {"Identifier", "Number", "String", "True", "False", "Nil", "OBracket",
                        "OBrace"} -> literal(p)
      [] token.typ \in {"Minus", "Bang"} -> unary(p)
      [] token.typ = "OParen" -> group(p)
      [] OTHER -> PErr(report(p, "expected an expression", token))

expr_rest(first, min_precedence, can_assign) ==
    IF first.ok THEN expr_loop(first.p, first.expr, min_precedence, can_assign)
    ELSE PErr(first.p)

\* `let mut token = self.next()?`: Parser::next is advance()? and then the token
\* in `previous`; advance returns at an EOF without assigning `previous`, so after
\* the first advance of parse_expr met the EOF `previous` is still None and next
\* ends in its `None => unreachable!()`
expr_first(n, min_precedence, can_assign) ==
    IF ~n.ok THEN PErr(n.p)
    ELSE IF n.p.prev = 0 THEN PErr([n.p EXCEPT !.panic = TRUE])
    ELSE expr_rest(prefix(n.p, previous(n.p)), min_precedence, can_assign)

expr(p, min_precedence, can_assign) == expr_first(advance(p), min_precedence, can_assign)

parse_start(a) == IF a.ok THEN expr(a.p, 9, TRUE) ELSE PErr(a.p)

parse_expr == parse_start(advance(NewParser))

(***************************************************************************)
(* Parser inputs: chains `operand (op operand)*` of binary operators, with *)
(* at most one parenthesised run of operands, and the expressions of the   *)
(* test suite (src/src/lib.rs, tests::parsing_exprs).                      *)
(***************************************************************************)
BinaryTypes == {"Star", "Slash", "Percent", "Plus", "Minus", "Greater", "GreaterEqual",
                "Less", "LessEqual", "DEqual", "BangEqual", "And", "Or", "Equal"}
OnePerLevel == {"Star", "Plus", "Less", "DEqual", "And", "Or", "Equal"}

\* the operators a chain of n operators draws from
Alphabet(n) == IF n <= 2 THEN BinaryTypes ELSE OnePerLevel

\* <<0, 0>>: no parentheses; <<i, j>>: operands i..j are wrapped in one group
Groups(k) == {<<0, 0>>} \cup {g \in (1..k) \X (1..k) : g[1] < g[2]}

RECURSIVE Chain(_, _, _)
Chain(ops, g, m) ==
    LET open == IF g[1] = m THEN <<"OParen">> ELSE <<>>
        close == IF g[2] = m THEN <<"CParen">> ELSE <<>>
        operand == open \o <<"Identifier">> \o close
    IN IF m > Len(ops) THEN operand
       ELSE operand \o <<ops[m]>> \o Chain(ops, g, m + 1)

BinaryInputs ==
    UNION {{Chain(ops, g, 1) : ops \in [1..n -> Alphabet(n)], g \in Groups(n + 1)} : n \in 1..MaxOps}

Example1 == <<"Number", "Plus", "Number", "Star", "Number">>
Example2 == <<"Number", "DEqual", "Number", "And", "True", "Or", "False">>
Example3 == <<"OParen", "Number", "Plus", "Number", "CParen", "Star", "Number">>

LibTests ==
    { Example1, Example2, Example3,
      <<"Minus", "Identifier", "OParen", "Number", "Comma", "Number", "CParen", "Period",
        "Identifier">>,
      <<"Number", "Plus", "Number", "Plus", "Number">>,
      <<"Identifier", "Equal", "Identifier", "Equal", "Identifier">>,
      <<"Identifier", "Period", "Identifier", "Equal", "Number">>,
      <<"Identifier", "Equal", "Number">>,
      <<"Number", "Plus", "Identifier", "Equal", "Number">>,
      <<"Identifier", "Plus", "Number", "Equal", "Number">>,
      <<"Number", "Plus", "Identifier", "Period", "Identifier", "Equal", "Number">>,
      <<"Identifier", "Period", "Identifier", "Plus", "Number", "Equal", "Number">>,
      <<"OBracket", "Number", "Comma", "Number">>,
      <<"OBrace", "Identifier", "Colon", "String">>,
      <<"OBrace", "Identifier", "Colon", "String", "Comma">>,
      <<"OBrace", "Identifier", "Colon", "String", "Identifier", "Colon", "Number", "CBrace">>,
      <<"OBrace", "Identifier", "Colon">>,
      <<"OBrace", "Identifier">>,
      <<"OBrace", "Number">>,
      <<"Comment", "Identifier", "OBracket", "Number", "CBracket", "Comment", "Equal", "Bang",
        "Nil">>,
      <<"Identifier", "Plus", "Unknown">> }

\* a source with no token but comments
EmptyInputs == {<<>>, <<"Comment">>, <<"Comment", "Comment">>}

Inputs == BinaryInputs \cup LibTests \cup EmptyInputs

(***************************************************************************)
(* The parser run on one input: Parser::new, then parse_expr.              *)
(***************************************************************************)
InitParser ==
    /\ status = "source"
    /\ functions = <<>>
    /\ stack = <<>>
    /\ globals = [n \in Natives |-> NativeValue(n)]
    /\ open_up_values = <<>>
    /\ up_values = <<>>
    /\ closures = <<>>
    /\ lists = <<>>
    /\ objects = <<>>
    /\ frames = <<>>
    /\ err = NoErr
    /\ reported = NoToken
    /\ written = <<>>
    /\ thrown = NoThrown
    /\ ev = NoEv
    /\ tokens \in Inputs
    /\ parsed = NoParse
    /\ ast = NoAst

Outcome(r) ==
    [done |-> TRUE, ok |-> r.ok, expr |-> r.expr, errs |-> r.p.errs, cur |-> r.p.cur,
     panic |-> r.p.panic]

ParseExpr ==
    /\ status = "source"
    /\ ~parsed.done
    /\ parsed' = Outcome(parse_expr)
    /\ UNCHANGED <<vmvars, tokens, ast>>

NextParser == ParseExpr

SpecParser == InitParser /\ [][NextParser]_vars

(***************************************************************************)
(* The parser of the newer crate (src/قتام/src/parser.rs).  It reads the   *)
(* same kind of token stream, which here also holds NewLine tokens; a      *)
(* token whose type is in INVALID_TYPES is what the lexer hands out as     *)
(* Err(LexicalError).  The parser's state is the index of `current`, the   *)
(* index of `previous`, `had_err`, and the diagnostics `err` printed so    *)
(* far.  Functions whose name the older parser also has carry the prefix   *)
(* q_; the others keep their name.  Statements and expressions are nodes   *)
(* [kind, tok, kids] alike.                                                *)
(***************************************************************************)
NewQParser == [cur |-> 1, prev |-> 0, errs |-> <<>>, had_err |-> FALSE]

\* token::BINARY_SET: the tokens that turn a Get into a Set
BINARY_SET == {"Equal"}

\* token::BOUNDARIES: the tokens at which sync stops
BOUNDARIES ==
    {"Function", "Var", "While", "Loop", "If", "Try", "Break", "Continue", "Return", "Throw",
     "For", "Import", "Export", "EOF"}

\* ParseError and LexicalError, as recorded
ExpectedInstead(expected, token) ==
    [kind |-> "ExpectedInstead", expected |-> expected, token |-> token]
ExpectedExpr(token) == [kind |-> "ExpectedExpr", expected |-> <<>>, token |-> token]
InvalidRhs(token) == [kind |-> "InvalidRhs", expected |-> <<>>, token |-> token]
Lexical(token) == [kind |-> "Lexical", expected |-> <<>>, token |-> token]

Node(kind, t, kids) == [kind |-> kind, tok |-> t, kids |-> kids]

q_err_flag_unset(p, e) == [p EXCEPT !.errs = Append(@, e)]

q_err(p, e) == [p EXCEPT !.had_err = TRUE, !.errs = Append(@, e)]

current_token(p) == TokenAt(p.cur)
clone_previous(p) == TokenAt(p.prev)

\* self.current = self.lexer.next_token(); the lexer answers EOF from the end on
next_token(p) == [p EXCEPT !.cur = IF p.cur > Len(tokens) THEN p.cur ELSE p.cur + 1]

\* the loop of peek: comments, and newlines if asked, are dropped from `current`
RECURSIVE skip(_, _)
skip(p, ignore_newlines) ==
    IF \/ current_token(p).typ = "Comment"
       \/ ignore_newlines /\ current_token(p).typ = "NewLine"
    THEN skip(next_token(p), ignore_newlines)
    ELSE p

RECURSIVE q_advance(_)
q_advance(p) ==
    IF current_token(p).typ \in INVALID_TYPES
    THEN PErr(next_token(q_err(p, Lexical(current_token(p)))))
    ELSE IF current_token(p).typ \in {"NewLine", "Comment"}
    THEN q_advance(next_token(p))
    ELSE POk(next_token([p EXCEPT !.prev = p.cur]), NoExpr)

\* check on the parser peek has left: is `current` of this type
q_check(q, typ) == current_token(q).typ = typ

check_consume_at(q, typ) == IF q_check(q, typ) THEN q_advance(q) ELSE PErr(q)

\* ok: the token was there and is consumed
check_consume(p, typ) == check_consume_at(skip(p, typ # "NewLine"), typ)

consume_or_err(c, typ) ==
    IF c.ok THEN c ELSE PErr(q_err(c.p, ExpectedInstead(<<typ>>, current_token(c.p))))

q_consume(p, typ) == consume_or_err(check_consume(p, typ), typ)

RECURSIVE q_expr(_, _, _)
RECURSIVE q_expr_loop(_, _, _, _)
RECURSIVE comma_loop(_, _, _, _)
RECURSIVE block(_)

q_parse_expr(p) == q_expr(p, 9, TRUE)

identifier_of(c) == IF c.ok THEN POk(c.p, Node("Name", clone_previous(c.p), <<>>)) ELSE PErr(c.p)

identifier(p) == identifier_of(q_consume(p, "Identifier"))

prop_value(r, key) == IF r.ok THEN POk(r.p, Node("Prop", key, <<r.expr>>)) ELSE PErr(r.p)

prop_colon(c, key) ==
    IF c.ok THEN prop_value(q_parse_expr(c.p), key) ELSE POk(c.p, Node("Prop", key, <<>>))

prop_name(c) ==
    IF ~c.ok THEN PErr(c.p) ELSE prop_colon(check_consume(c.p, "Colon"), clone_previous(c.p))

prop(p) == prop_name(q_consume(p, "Identifier"))

(***************************************************************************)
(* exprs, props and params are one loop over three kinds of item: a        *)
(* closing token at once, or item (`,` item)* with the closing token       *)
(* allowed after a comma, then the closing token.                          *)
(***************************************************************************)
item(p, what) ==
    CASE what = "expr" -> q_parse_expr(p)
      [] what = "prop" -> prop(p)
      [] what = "identifier" -> identifier(p)

comma_end(c, items) == IF c.ok THEN POkItems(c.p, items) ELSE PErr(c.p)

comma_item(r, items, closing_token, what) ==
    IF r.ok THEN comma_loop(r.p, Append(items, r.expr), closing_token, what) ELSE PErr(r.p)

comma_closing(c, items, closing_token, what) ==
    IF c.ok THEN POkItems(c.p, items)
    ELSE comma_item(item(c.p, what), items, closing_token, what)

comma_found(c, items, closing_token, what) ==
    IF c.ok THEN comma_closing(check_consume(c.p, closing_token), items, closing_token, what)
    ELSE comma_end(q_consume(c.p, closing_token), items)

comma_loop(p, items, closing_token, what) ==
    comma_found(check_consume(p, "Comma"), items, closing_token, what)

comma_list(p, closing_token, what) ==
    comma_closing(check_consume(p, closing_token), <<>>, closing_token, what)

q_exprs(p, closing_token) == comma_list(p, closing_token, "expr")

props(p) == comma_list(p, "CBrace", "prop")

params(p, closing_token) == comma_list(p, closing_token, "identifier")

\* Ok(make(items?))
collected(r, kind, t) == IF r.ok THEN POk(r.p, Node(kind, t, r.items)) ELSE PErr(r.p)

q_list(p) == collected(q_exprs(p, "CBracket"), "List", NoTok)

q_object(p) == collected(props(p), "Object", NoTok)

q_literal_of(p, token) ==
    CASE token.typ = "Identifier" -> POk(p, ExprVariable(token))
      [] token.typ = "Number" -> POk(p, ExprLiteral("Number", token, <<>>))
      [] token.typ = "String" -> POk(p, ExprLiteral("String", token, <<>>))
      [] token.typ \in {"True", "False"} -> POk(p, ExprLiteral("Bool", token, <<>>))
      [] token.typ = "Nil" -> POk(p, ExprLiteral("Nil", token, <<>>))
      [] token.typ = "OBracket" -> q_list(p)
      [] token.typ = "OBrace" -> q_object(p)

q_literal(p) == q_literal_of(p, clone_previous(p))

q_unary(p) ==
    unary_operand(q_expr(p, Operator(clone_previous(p).typ).prefix, FALSE), clone_previous(p))

q_group_close(r) == IF ~r.ok THEN PErr(r.p) ELSE closed(q_consume(r.p, "CParen"), r.expr)

q_group(p) == q_group_close(q_parse_expr(p))

(***************************************************************************)
(* A run of `?` steps: each step is tried on the parser the step before    *)
(* has left, the first Err ends the run, and the nodes the steps have      *)
(* produced are collected in order.                                        *)
(***************************************************************************)
Consume(typ) == <<"consume", typ>>
Identifier == <<"identifier", "Identifier">>
ParseExprStep == <<"expr", "None">>
Block == <<"block", "None">>
Params(closing_token) == <<"params", closing_token>>

step(p, s) ==
    CASE s[1] = "consume" -> q_consume(p, s[2])
      [] s[1] = "identifier" -> identifier(p)
      [] s[1] = "expr" -> q_parse_expr(p)
      [] s[1] = "block" -> block(p)
      [] s[1] = "params" -> collected(params(p, s[2]), "Params", NoTok)

RECURSIVE sequence(_, _, _)
sequence_step(r, rest, kids) ==
    IF ~r.ok THEN PErr(r.p)
    ELSE sequence(r.p, rest, IF r.expr = NoExpr THEN kids ELSE Append(kids, r.expr))

sequence(p, steps, kids) ==
    IF steps = <<>> THEN POkItems(p, kids) ELSE sequence_step(step(p, Head(steps)), Tail(steps), kids)

lambda(p) ==
    IF clone_previous(p).typ = "Or"
    THEN collected(sequence(p, <<Consume("OBrace"), Block>>, <<Node("Params", NoTok, <<>>)>>),
                   "Lambda", clone_previous(p))
    ELSE collected(sequence(p, <<Params("Pipe"), Consume("OBrace"), Block>>, <<>>),
                   "Lambda", clone_previous(p))

\* the Get/Set split after `.name` and after `[key]`, on the parser peek(true) has left
q_set_value(r, token, e, key, min_precedence, can_assign) ==
    IF r.ok THEN q_expr_loop(r.p, ExprSet(token, e, key, r.expr), min_precedence, can_assign)
    ELSE PErr(r.p)

q_set_equal(n, e, key, min_precedence, can_assign, rhs) ==
    IF ~n.ok THEN PErr(n.p)
    ELSE q_set_value(q_expr(IF ~can_assign THEN q_err(n.p, InvalidRhs(clone_previous(n.p)))
                            ELSE n.p,
                            rhs, TRUE),
                     clone_previous(n.p), e, key, min_precedence, can_assign)

q_get_or_set(q, token, e, key, min_precedence, can_assign, rhs) ==
    IF current_token(q).typ \in BINARY_SET
    THEN q_set_equal(q_advance(q), e, key, min_precedence, can_assign, rhs)
    ELSE q_expr_loop(q, ExprGet(token, e, key), min_precedence, can_assign)

\* the infix branch of the loop, after self.advance()
q_binary_right(r, token, e, min_precedence, can_assign) ==
    IF r.ok THEN q_expr_loop(r.p, ExprBinary(token, e, r.expr), min_precedence, can_assign)
    ELSE PErr(r.p)

q_infix(a, token, e, min_precedence, can_assign) ==
    IF ~a.ok THEN PErr(a.p)
    ELSE q_binary_right(q_expr(IF token.typ = "Equal" /\ ~can_assign
                               THEN q_err(a.p, InvalidRhs(token))
                               ELSE a.p,
                               rhs_precedence(Operator(token.typ).assoc,
                                              Operator(token.typ).infix),
                               can_assign),
                        token, e, min_precedence, can_assign)

\* the postfix branch of the loop, after self.advance()
q_call_args(r, token, e, min_precedence, can_assign) ==
    IF r.ok THEN q_expr_loop(r.p, ExprCall(token, e, r.items), min_precedence, can_assign)
    ELSE PErr(r.p)

q_period_name(c, token, e, min_precedence, can_assign, postfix_precedence) ==
    IF ~c.ok THEN PErr(c.p)
    ELSE q_get_or_set(skip(c.p, TRUE), token, e,
                      ExprLiteral("String", clone_previous(c.p), <<>>),
                      min_precedence, can_assign, postfix_precedence)

\* after `]`: a Set parses its value at the infix precedence of the token peeked
q_bracket_peek(q, token, e, key, min_precedence, can_assign) ==
    q_get_or_set(q, token, e, key, min_precedence, can_assign,
                 Operator(current_token(q).typ).infix)

q_bracket_close(c, token, e, key, min_precedence, can_assign) ==
    IF ~c.ok THEN PErr(c.p)
    ELSE q_bracket_peek(skip(c.p, TRUE), token, e, key, min_precedence, can_assign)

q_bracket_key(k, token, e, min_precedence, can_assign) ==
    IF ~k.ok THEN PErr(k.p)
    ELSE q_bracket_close(q_consume(k.p, "CBracket"), token, e, k.expr, min_precedence,
                         can_assign)

q_postfix(a, token, e, min_precedence, can_assign, postfix_precedence) ==
    IF ~a.ok THEN PErr(a.p)
    ELSE CASE token.typ = "OParen" ->
                q_call_args(q_exprs(a.p, "CParen"), token, e, min_precedence, can_assign)
           [] token.typ = "Period" ->
                q_period_name(q_consume(a.p, "Identifier"), token, e, min_precedence,
                              can_assign, postfix_precedence)
           [] token.typ = "OBracket" ->
                q_bracket_key(q_parse_expr(a.p), token, e, min_precedence, can_assign)

\* one turn of the loop on the token `self.peek(true)`
q_expr_token(q, token, e, min_precedence, can_assign) ==
    IF Operator(token.typ).infix # None
    THEN IF min_precedence < Operator(token.typ).infix THEN POk(q, e)
         ELSE q_infix(q_advance(q), token, e, min_precedence,
                      IF token.typ # "Equal" THEN FALSE ELSE can_assign)
    ELSE IF Operator(token.typ).postfix # None
    THEN IF min_precedence < Operator(token.typ).postfix THEN POk(q, e)
         ELSE q_postfix(q_advance(q), token, e, min_precedence, can_assign,
                        Operator(token.typ).postfix)
    ELSE POk(q, e)

\* !self.at_end(), on the parser check(NewLine) has left
q_expr_at_end(q, e, min_precedence, can_assign) ==
    IF q_check(q, "EOF") THEN POk(q, e)
    ELSE q_expr_token(q, current_token(q), e, min_precedence, can_assign)

\* !self.check(TokenType::NewLine)
q_expr_line(q, e, min_precedence, can_assign) ==
    IF q_check(q, "NewLine") THEN POk(q, e)
    ELSE q_expr_at_end(skip(q, TRUE), e, min_precedence, can_assign)

\* the `while !self.check(NewLine) && !self.at_end()` of expr
q_expr_loop(p, e, min_precedence, can_assign) ==
    q_expr_line(skip(p, FALSE), e, min_precedence, can_assign)

\* the `match token.typ` on the token self.next() returned
q_prefix(p, token) ==
    CASE token.typ \in {"Identifier", "Number", "String", "True", "False", "Nil", "OBracket",
                        "OBrace"} -> q_literal(p)
      [] token.typ \in {"Minus", "Bang"} -> q_unary(p)
      [] token.typ = "OParen" -> q_group(p)
      [] token.typ \in {"Pipe", "Or"} -> lambda(p)
      [] OTHER -> PErr(q_err(p, ExpectedExpr(token)))

q_expr_rest(first, min_precedence, can_assign) ==
    IF first.ok THEN q_expr_loop(first.p, first.expr, min_precedence, can_assign)
    ELSE PErr(first.p)

q_expr_first(n, min_precedence, can_assign) ==
    IF ~n.ok THEN PErr(n.p)
    ELSE q_expr_rest(q_prefix(n.p, clone_previous(n.p)), min_precedence,
                     IF clone_previous(n.p).typ \in {"OParen", "Pipe", "Or"} THEN FALSE
                     ELSE can_assign)

q_expr(p, min_precedence, can_assign) == q_expr_first(q_advance(p), min_precedence, can_assign)

(***************************************************************************)
(* Statements and declarations.                                            *)
(***************************************************************************)
\* self.check(TokenType::NewLine): Throw(token, None), else the expression follows
return_or_throw(q, kind, token) ==
    IF q_check(q, "NewLine") THEN POk(q, Node("Throw", token, <<>>))
    ELSE collected(sequence(q, <<ParseExprStep>>, <<>>), kind, token)

return_stml(p) == return_or_throw(skip(p, FALSE), "Return", clone_previous(p))

throw_stml(p) == return_or_throw(skip(p, FALSE), "Throw", clone_previous(p))

function_decl(p) ==
    collected(sequence(p, <<Identifier, Consume("OParen"), Params("CParen"), Consume("OBrace"),
                            Block>>, <<>>),
              "FunctionDecl", NoTok)

expr_stml(p) == collected(sequence(p, <<ParseExprStep>>, <<>>), "Expr", NoTok)

while_stml(p) ==
    collected(sequence(p, <<Consume("OParen"), ParseExprStep, Consume("CParen"),
                            Consume("OBrace"), Block>>, <<>>),
              "While", NoTok)

loop_stml(p) == collected(sequence(p, <<Consume("OBrace"), Block>>, <<>>), "Loop", NoTok)

break_stml(p) == POk(p, Node("Break", clone_previous(p), <<>>))

continue_stml(p) == POk(p, Node("Continue", clone_previous(p), <<>>))

try_catch(p) ==
    collected(sequence(p, <<Consume("OBrace"), Block, Consume("Catch"), Consume("OParen"),
                            Identifier, Consume("CParen"), Consume("OBrace"), Block>>, <<>>),
              "TryCatch", NoTok)

\* the kids of an IfElse: condition, body, then (condition, body) per else-if, then the else body
RECURSIVE elseifs(_, _)
else_found(c, kids) ==
    IF c.ok THEN sequence(c.p, <<Consume("OBrace"), Block>>, kids) ELSE POkItems(c.p, kids)

elseif_body(r) == IF r.ok THEN elseifs(r.p, r.items) ELSE PErr(r.p)

elseif_found(c, kids) ==
    IF c.ok
    THEN elseif_body(sequence(c.p, <<Consume("OParen"), ParseExprStep, Consume("CParen"),
                                     Consume("OBrace"), Block>>, kids))
    ELSE else_found(check_consume(c.p, "Else"), kids)

elseifs(p, kids) == elseif_found(check_consume(p, "ElseIf"), kids)

if_body(r) == IF r.ok THEN elseifs(r.p, r.items) ELSE PErr(r.p)

if_else_stml(p) ==
    collected(if_body(sequence(p, <<Consume("OParen"), ParseExprStep, Consume("CParen"),
                                    Consume("OBrace"), Block>>, <<>>)),
              "IfElse", NoTok)

\* the kids of a VarDecl: the name, then the initializer if there is one
var_initializer(c, name) ==
    IF c.ok THEN sequence(c.p, <<ParseExprStep>>, <<name>>) ELSE POkItems(c.p, <<name>>)

var_name(c) ==
    IF ~c.ok THEN PErr(c.p) ELSE var_initializer(check_consume(c.p, "Equal"), c.expr)

var_decl(p) == collected(var_name(identifier(p)), "VarDecl", clone_previous(p))

for_in(p) ==
    collected(sequence(p, <<Consume("OParen"), Identifier, Consume("In"), ParseExprStep,
                            Consume("CParen"), Consume("OBrace"), Block>>, <<>>),
              "ForIn", clone_previous(p))

\* the chain of check_consume: the first keyword `current` is, after peek(true), is consumed
stml_at(q) ==
    CASE q_check(q, "While") -> while_stml(q_advance(q).p)
      [] q_check(q, "Loop") -> loop_stml(q_advance(q).p)
      [] q_check(q, "If") -> if_else_stml(q_advance(q).p)
      [] q_check(q, "Try") -> try_catch(q_advance(q).p)
      [] q_check(q, "OBrace") -> block(q_advance(q).p)
      [] q_check(q, "Break") -> break_stml(q_advance(q).p)
      [] q_check(q, "Continue") -> continue_stml(q_advance(q).p)
      [] q_check(q, "Return") -> return_stml(q_advance(q).p)
      [] q_check(q, "Throw") -> throw_stml(q_advance(q).p)
      [] q_check(q, "For") -> for_in(q_advance(q).p)
      [] OTHER -> expr_stml(q)

stml(p) == stml_at(skip(p, TRUE))

\* the name, then the String token as a node
imported_string(c, name) ==
    IF c.ok THEN POkItems(c.p, <<name, Node("String", clone_previous(c.p), <<>>)>>)
    ELSE PErr(c.p)

imported_from(r) ==
    IF ~r.ok THEN PErr(r.p) ELSE imported_string(q_consume(r.p, "String"), r.items[1])

imported_decl(p) ==
    collected(imported_from(sequence(p, <<Identifier, Consume("From")>>, <<>>)), "Import", NoTok)

exported(r, token) == IF r.ok THEN POk(r.p, Node("Export", token, <<r.expr>>)) ELSE PErr(r.p)

exported_at(q, token) ==
    CASE q_check(q, "Function") -> exported(function_decl(q_advance(q).p), token)
      [] q_check(q, "Var") -> exported(var_decl(q_advance(q).p), token)
      [] OTHER -> PErr(q_err(q, ExpectedInstead(<<"Function", "Var">>, current_token(q))))

exported_decl(p) == exported_at(skip(p, TRUE), clone_previous(p))

decl_at(q) ==
    CASE q_check(q, "Function") -> function_decl(q_advance(q).p)
      [] q_check(q, "Var") -> var_decl(q_advance(q).p)
      [] q_check(q, "Export") -> exported_decl(q_advance(q).p)
      [] q_check(q, "Import") -> imported_decl(q_advance(q).p)
      [] OTHER -> stml(q)

decl(p) == decl_at(skip(p, TRUE))

RECURSIVE block_loop(_, _)
block_decl(r, decls) == IF r.ok THEN block_loop(r.p, Append(decls, r.expr)) ELSE PErr(r.p)

block_at_to_the_end(q, decls) ==
    IF q_check(q, "EOF")
    THEN collected(sequence(q, <<Consume("CBrace")>>, decls), "Block", NoTok)
    ELSE block_decl(decl(q), decls)

block_at(q, decls) ==
    IF q_check(q, "EOF") \/ q_check(q, "CBrace")
    THEN collected(sequence(q, <<Consume("CBrace")>>, decls), "Block", NoTok)
    ELSE block_decl(decl(q), decls)

\* the `while !self.at_end() && !self.check(TokenType::CBrace)` of block
block_loop(p, decls) == block_at(skip(p, TRUE), decls)

block(p) == block_loop(p, <<>>)

RECURSIVE sync(_)
sync_at(q) ==
    IF q_check(q, "EOF") \/ current_token(q).typ \in BOUNDARIES THEN q ELSE sync(q_advance(q).p)

sync(p) == sync_at(skip(p, TRUE))

(***************************************************************************)
(* Parser::parse.  Besides the declarations and the parser, the loop keeps *)
(* where each failed declaration began and where sync left `current`.      *)
(***************************************************************************)
\* failed[k]: where the k-th failed declaration began, where `current` was when it failed
\* and how many errors were recorded by then; resumed[k]: where sync then left `current`
ParseState(p, decls, starts, failed, resumed) ==
    [p |-> p, decls |-> decls, starts |-> starts, failed |-> failed, resumed |-> resumed]

RECURSIVE parse_loop(_)
\* Err(_) => self.sync(): the turn ends where sync has left the parser
parse_recover_in_place(q, s, failure) == s

parse_recover(q, s, failure) ==
    ParseState(q, s.decls, s.starts, Append(s.failed, failure), Append(s.resumed, q.cur))

\* the body of the loop: match self.decl()
parse_decl(r, s, begun) ==
    IF r.ok
    THEN ParseState(r.p, Append(s.decls, r.expr), Append(s.starts, begun), s.failed, s.resumed)
    ELSE parse_recover(sync(r.p), s,
                       [begun |-> begun, before |-> Len(s.p.errs), left |-> r.p.cur,
                        errs |-> Len(r.p.errs)])

parse_at(q, s) ==
    IF q_check(q, "EOF") THEN [s EXCEPT !.p = q]
    ELSE parse_loop(parse_decl(decl(q), s, q.cur))

\* the `while !self.at_end()` of parse
parse_loop(s) == parse_at(skip(s.p, TRUE), s)

parse_result(s) ==
    [done |-> TRUE, by |-> "parse", ok |-> ~s.p.had_err,
     nodes |-> IF s.p.had_err THEN <<>> ELSE s.decls,
     errs |-> s.p.errs, had_err |-> s.p.had_err, cur |-> s.p.cur, prev |-> s.p.prev,
     decls |-> s.decls, starts |-> s.starts, failed |-> s.failed, resumed |-> s.resumed]

parse == parse_result(parse_loop(ParseState(NewQParser, <<>>, <<>>, <<>>, <<>>)))

(***************************************************************************)
(* Parser::parse, one turn of its loop at a time: between two turns the    *)
(* parser and the declarations so far are kept in `ast`.                   *)
(***************************************************************************)
parse_turn(s) == [parse_result(s) EXCEPT !.done = FALSE, !.by = "parse_loop"]

parse_state(a) ==
    ParseState([cur |-> a.cur, prev |-> a.prev, errs |-> a.errs, had_err |-> a.had_err],
               a.decls, a.starts, a.failed, a.resumed)

\* `while !self.at_end()`: the loop is left, or its body runs once
parse_step_at(q, s) ==
    IF q_check(q, "EOF") THEN parse_result([s EXCEPT !.p = q])
    ELSE parse_turn(parse_decl(decl(q), s, q.cur))

parse_step(s) == parse_step_at(skip(s.p, TRUE), s)

parse_expr_result(r) ==
    [done |-> TRUE, by |-> "parse_expr", ok |-> r.ok,
     nodes |-> IF r.ok THEN <<r.expr>> ELSE <<>>,
     errs |-> r.p.errs, had_err |-> r.p.had_err, cur |-> r.p.cur, prev |-> r.p.prev,
     decls |-> <<>>, starts |-> <<>>, failed |-> <<>>, resumed |-> <<>>]

(***************************************************************************)
(* Inputs of the newer parser: the statements of the test suite            *)
(* (src/src/lib.rs, tests::parsing_stmls) and further declarations, each   *)
(* also damaged (a token dropped, replaced by an invalid one, or a NewLine *)
(* put in), failed declarations followed by sound ones, and expressions.   *)
(***************************************************************************)
Drop(t, i) == SubSeq(t, 1, i - 1) \o SubSeq(t, i + 1, Len(t))
Put(t, i, typ) == [t EXCEPT ![i] = typ]
Insert(t, i, typ) == SubSeq(t, 1, i - 1) \o <<typ>> \o SubSeq(t, i, Len(t))

StmlFunction ==
    <<"Function", "Identifier", "OParen", "Identifier", "Comma", "Identifier", "CParen",
      "OBrace", "Return", "Identifier", "Plus", "Identifier", "Throw", "String", "CBrace">>
StmlIfElse ==
    <<"If", "OParen", "Identifier", "DEqual", "Number", "CParen",
      "OBrace", "Identifier", "OParen", "String", "CParen", "CBrace",
      "Else", "OBrace", "Identifier", "OParen", "String", "CParen", "CBrace">>
StmlLoops ==
    <<"While", "OParen", "True", "CParen", "OBrace", "Identifier", "OParen", "String", "CParen",
      "CBrace",
      "Loop", "OBrace", "Identifier", "OParen", "String", "CParen", "Continue", "Break",
      "CBrace">>
StmlTryCatch ==
    <<"Try", "OBrace", "Identifier", "Equal", "Identifier", "Slash", "Number", "CBrace",
      "Catch", "OParen", "Identifier", "CParen", "OBrace", "Identifier", "OParen", "Identifier",
      "CParen", "CBrace">>
StmlBlock == <<"OBrace", "Identifier", "OParen", "Nil", "CParen", "CBrace">>

StmlTests == {StmlFunction, StmlIfElse, StmlLoops, StmlTryCatch, StmlBlock}

\* the same statements written over several lines: a NewLine after every `{`, before every
\* `}` and before every statement keyword inside a block
RECURSIVE Lines(_)
Lines(t) ==
    IF t = <<>> THEN <<>>
    ELSE IF Head(t) = "OBrace" THEN <<"OBrace", "NewLine">> \o Lines(Tail(t))
    ELSE IF Head(t) \in {"CBrace", "Throw", "Continue", "Break"}
    THEN <<"NewLine", Head(t)>> \o Lines(Tail(t))
    ELSE <<Head(t)>> \o Lines(Tail(t))

DeclSamples ==
    StmlTests \cup
    { <<"Var", "Identifier", "Equal", "Number">>,
      <<"Var", "Identifier", "NewLine", "Identifier", "OParen", "CParen">>,
      <<"Import", "Identifier", "From", "String">>,
      <<"Export", "Function", "Identifier", "OParen", "CParen", "OBrace", "CBrace">>,
      <<"Export", "Var", "Identifier", "Equal", "Number">>,
      <<"For", "OParen", "Identifier", "In", "Identifier", "CParen", "OBrace", "Break",
        "CBrace">>,
      <<"If", "OParen", "True", "CParen", "OBrace", "CBrace", "ElseIf", "OParen", "False",
        "CParen", "OBrace", "CBrace", "Else", "OBrace", "CBrace">>,
      <<"Identifier", "Equal", "Pipe", "Identifier", "Comma", "Identifier", "Pipe", "OBrace",
        "Return", "Identifier", "NewLine", "CBrace">>,
      <<"Identifier", "OParen", "Or", "OBrace", "CBrace", "Comma", "CParen">>,
      <<"Return", "NewLine", "Comment", "NewLine", "Throw", "Nil">> }

Damaged ==
    UNION {{Drop(t, i) : i \in DOMAIN t} \cup {Put(t, i, "Unknown") : i \in DOMAIN t}
              \cup {Insert(t, i, "NewLine") : i \in DOMAIN t} : t \in DeclSamples}

\* declarations that fail, and declarations that parse
BadDecls ==
    { <<"CParen">>,
      <<"Identifier", "Equal">>,
      <<"Var", "Number">>,
      <<"Identifier", "Plus", "Unknown">>,
      <<"While", "OParen", "Number", "Plus", "CParen", "OBrace", "Break", "CBrace">>,
      <<"Function", "Identifier", "OParen", "CParen", "OBrace", "Star", "CBrace">> }
GoodDecls ==
    { <<"Var", "Identifier", "Equal", "Number">>,
      <<"Identifier", "Equal", "Number">>,
      <<"Return", "Number">>,
      <<"Function", "Identifier", "OParen", "CParen", "OBrace", "CBrace">> }
Separators == {<<"NewLine">>, <<"NewLine", "NewLine">>}

RecoveryInputs ==
    {bad \o sep \o good : bad \in BadDecls, sep \in Separators, good \in GoodDecls}
       \cup {bad \o sep \o worse : bad \in BadDecls, sep \in Separators, worse \in BadDecls}

\* the binary operators, by precedence level
LevelClasses ==
    { {"Star", "Slash", "Percent"}, {"Plus", "Minus"},
      {"Greater", "GreaterEqual", "Less", "LessEqual"}, {"DEqual", "BangEqual"},
      {"And"}, {"Or"}, {"Equal"} }

\* a op b op c ...: 2..MaxChain operators of one level
AssocInputs ==
    UNION {UNION {{Chain(ops, <<0, 0>>, 1) : ops \in [1..n -> class]} : class \in LevelClasses}
              : n \in 2..MaxChain}

\* the postfix forms
Postfixes ==
    { <<"OParen", "Number", "Comma", "Number", "CParen">>, <<"OParen", "CParen">>,
      <<"Period", "Identifier">>, <<"OBracket", "Number", "CBracket">> }

RECURSIVE Concat(_)
Concat(ss) == IF ss = <<>> THEN <<>> ELSE Head(ss) \o Concat(Tail(ss))

PostfixRuns == UNION {{Concat(run) : run \in [1..n -> Postfixes]} : n \in 0..MaxPostfix}

\* -x<postfix forms> and -x<postfix forms> op y
PrefixInputs ==
    {<<pre, "Identifier">> \o run \o tail :
        pre \in {"Minus", "Bang"}, run \in PostfixRuns,
        tail \in {<<>>} \cup {<<op, "Identifier">> : op \in BinaryTypes}}

\* a op b = c
Operands ==
    { <<"Identifier">>, <<"Number">>, <<"String">>, <<"True">>, <<"Nil">>,
      <<"Identifier", "Period", "Identifier">> }
LvalueInputs ==
    {a \o <<op>> \o b \o <<"Equal", "Number">> :
        a \in Operands, b \in Operands, op \in BinaryTypes \ {"Equal"}}
       \cup {<<"Identifier", "Equal", "Number">>,
             <<"Identifier", "Period", "Identifier", "Equal", "Number">>}

\* L = R, by the form of L
Assignable ==
    { <<"Identifier">>, <<"Identifier", "Period", "Identifier">>,
      <<"Identifier", "OBracket", "Number", "CBracket">>,
      <<"Identifier", "OParen", "CParen", "Period", "Identifier">>,
      <<"Identifier", "Period", "Identifier", "OBracket", "String", "CBracket">> }
NotAssignable ==
    { <<"Number">>, <<"String">>, <<"True">>, <<"Nil">>, <<"OBracket", "CBracket">>,
      <<"OBrace", "CBrace">>,
      <<"Identifier", "OParen", "CParen">>,
      <<"Identifier", "Period", "Identifier", "OParen", "Number", "CParen">>,
      <<"Minus", "Identifier">>, <<"Bang", "Identifier">>,
      <<"OParen", "Identifier", "CParen">>,
      <<"OParen", "Identifier", "Period", "Identifier", "CParen">>,
      <<"Pipe", "Identifier", "Pipe", "OBrace", "CBrace">>, <<"Or", "OBrace", "CBrace">> }
AssignInputs ==
    {l \o <<"Equal">> \o r : l \in Assignable \cup NotAssignable,
                             r \in {<<"Number">>, <<"Identifier">>}}

\* collection literals that are not closed or not well formed
Values == {<<"Number">>, <<"String">>, <<"Identifier">>, <<"OBracket", "CBracket">>}
ItemRuns == Values \cup {a \o <<"Comma">> \o b : a \in Values, b \in Values}
PropertyRuns ==
    {<<"Identifier", "Colon">> \o v : v \in Values}
       \cup {<<"Identifier", "Colon">> \o a \o <<"Comma", "Identifier", "Colon">> \o b :
                a \in Values, b \in Values}
UnclosedLists == {<<"OBracket">> \o items \o x : items \in ItemRuns, x \in {<<>>, <<"CParen">>}}
UnclosedObjects ==
    {<<"OBrace">> \o run \o x :
        run \in PropertyRuns,
        x \in {<<>>, <<"CBracket">>, <<"Identifier", "Colon", "Number", "CBrace">>}}
NamelessProperties ==
    {<<"OBrace">> \o x : x \in {<<"Number">>, <<"String", "Colon", "Number", "CBrace">>}}
       \cup {<<"OBrace">> \o run \o <<"Comma">> \o x :
                run \in PropertyRuns, x \in {<<>>, <<"Number">>}}
ColonlessProperties ==
    {<<"OBrace", "Identifier">> \o x :
        x \in {<<>>, <<"Number">>, <<"CBrace">>, <<"Comma", "Identifier", "Colon", "Number">>}}
CollectionInputs ==
    UnclosedLists \cup UnclosedObjects \cup NamelessProperties \cup ColonlessProperties

\* `return` alone on its line, and `return` with an expression
ReturnInputs ==
    { <<"Return", "NewLine">>,
      <<"Return", "NewLine", "Identifier", "OParen", "CParen">>,
      <<"Return", "Identifier", "Plus", "Number", "NewLine">>,
      <<"Function", "Identifier", "OParen", "CParen", "OBrace", "Return", "NewLine", "CBrace">> }

\* a complete operand, a line break, and a line that begins with an infix or
\* postfix token; and line breaks where an operand is still to come
LineOperands ==
    { <<"Identifier">>, <<"Number">>, <<"Identifier", "OParen", "CParen">>,
      <<"Identifier", "Period", "Identifier">>,
      <<"Identifier", "OBracket", "Number", "CBracket">> }
LineContinuations ==
    { <<"Plus", "Number">>, <<"Equal", "Number">>, <<"OParen", "CParen">>,
      <<"Period", "Identifier">>, <<"OBracket", "Number", "CBracket">> }
BrokenLines == {o \o <<"NewLine">> \o c : o \in LineOperands, c \in LineContinuations}
OpenLines ==
    { <<"Identifier", "Plus", "NewLine", "Number">>,
      <<"Identifier", "Equal", "NewLine", "NewLine", "Number">>,
      <<"Minus", "NewLine", "Identifier">>,
      <<"Identifier", "OParen", "NewLine", "Number", "Comma", "NewLine", "Number", "CParen">>,
      <<"OParen", "NewLine", "Identifier", "Star", "Number", "CParen">> }

\* `target.name = V` and `target[key] = V` for three right-hand sides
SetTargets ==
    {<<"Identifier", "Period", "Identifier">>, <<"Identifier", "OBracket", "Number", "CBracket">>}
SetValues ==
    {<<"Number">>, <<"Number", "Plus", "Number">>, <<"Identifier", "Equal", "Number">>}
SetInputs == {t \o <<"Equal">> \o v : t \in SetTargets, v \in SetValues}

QInputs ==
    StmlTests \cup {Lines(t) : t \in StmlTests} \cup DeclSamples \cup Damaged
       \cup RecoveryInputs \cup AssocInputs \cup PrefixInputs \cup LvalueInputs
       \cup AssignInputs \cup CollectionInputs \cup LibTests \cup ReturnInputs
       \cup BrokenLines \cup OpenLines \cup SetInputs

(***************************************************************************)
(* Both parsers run on one input: parse_expr of src/src/parser.rs, and     *)
(* Parser::new followed by parse_expr or by parse of src/قتام.             *)
(***************************************************************************)
InitQParser ==
    /\ status = "source"
    /\ functions = <<>>
    /\ stack = <<>>
    /\ globals = [n \in Natives |-> NativeValue(n)]
    /\ open_up_values = <<>>
    /\ up_values = <<>>
    /\ closures = <<>>
    /\ lists = <<>>
    /\ objects = <<>>
    /\ frames = <<>>
    /\ err = NoErr
    /\ reported = NoToken
    /\ written = <<>>
    /\ thrown = NoThrown
    /\ ev = NoEv
    /\ tokens \in QInputs
    /\ parsed = NoParse
    /\ ast = NoAst

QParseExpr ==
    /\ status = "source"
    /\ ~ast.done
    /\ ast' = parse_expr_result(q_parse_expr(NewQParser))
    /\ UNCHANGED <<vmvars, tokens, parsed>>

Parse ==
    /\ status = "source"
    /\ ~ast.done
    /\ ast' = parse
    /\ UNCHANGED <<vmvars, tokens, parsed>>

NextQParser == ParseExpr \/ QParseExpr \/ Parse

SpecQParser == InitQParser /\ [][NextQParser]_vars

(***************************************************************************)
(* Parser::parse as a loop: every step is one test of `!self.at_end()` and *)
(* one run of the body.  The loop is sequential code, so a step that can   *)
(* be taken is taken.                                                      *)
(***************************************************************************)
InitParseLoop ==
    /\ status = "source"
    /\ functions = <<>>
    /\ stack = <<>>
    /\ globals = [n \in Natives |-> NativeValue(n)]
    /\ open_up_values = <<>>
    /\ up_values = <<>>
    /\ closures = <<>>
    /\ lists = <<>>
    /\ objects = <<>>
    /\ frames = <<>>
    /\ err = NoErr
    /\ reported = NoToken
    /\ written = <<>>
    /\ thrown = NoThrown
    /\ ev = NoEv
    /\ tokens \in QInputs
    /\ parsed = NoParse
    /\ ast = parse_turn(ParseState(NewQParser, <<>>, <<>>, <<>>, <<>>))

ParseStep ==
    /\ status = "source"
    /\ ast.by = "parse_loop"
    /\ ast' = parse_step(parse_state(ast))
    /\ UNCHANGED <<vmvars, tokens, parsed>>

NextParseLoop == ParseStep

\* WF_vars(ParseStep), with ENABLED <<ParseStep>>_vars written as the state
\* predicate it is equal to: the step can be taken until the loop is left
ParseStepEnabled == status = "source" /\ ast.by = "parse_loop"
ParseLoopFairness == []<>(~ParseStepEnabled) \/ []<><<ParseStep>>_vars

SpecParseLoop == InitParseLoop /\ [][NextParseLoop]_vars /\ ParseLoopFairness

(***************************************************************************)
(* Properties of the virtual machine, checked under Spec.                  *)
(***************************************************************************)

\* C1, as stated: when a call returns normally the caller's stack depth is the
\* depth at which Call was fetched (callee and arguments included) minus argc
\* plus one.
CallReturnBalanceAsStated ==
    ev.kind = "return" => Len(stack) = ev.pre - ev.argc + 1

\* C1: when a call returns normally the caller's stack depth is the depth at
\* which Call was fetched (callee and arguments included) minus argc: the callee
\* and its argc arguments are replaced by the single returned value, on top.
CallReturnBalance ==
    ev.kind = "return" => Len(stack) = ev.pre - ev.argc

CallReturnBalanceWitness ==
    /\ ev.kind = "return" /\ ~ev.flag
    /\ ev.argc = MaxArgc
    /\ Len(frames) >= 2

\* C2: a captured local outlives its frame: while the cell is open it is the
\* stack slot, once closed it holds the last value written to the variable, and
\* every GetUpValue pushes that last written value, never what now occupies
\* the old slot.
UpvalueSurvivesFrame ==
    /\ status \in {"running", "unwinding"} =>
          \A c \in DOMAIN up_values :
             IF up_values[c].open
             THEN /\ up_values[c].idx < Len(stack)
                  /\ stack[up_values[c].idx + 1] = written[c].val
             ELSE up_values[c].val = written[c].val
    /\ ev.kind = "getupvalue" => Last(stack) = written[ev.cell].val

UpvalueSurvivesFrameWitness ==
    /\ ev.kind = "getupvalue" /\ ev.flag
    /\ Len(frames) = 2
    /\ Len(stack) > ev.slot + 1
    /\ stack[ev.slot + 1] # Last(stack)
    /\ written[ev.cell].wclosed

\* C3: closures that capture the same live local share one cell: no second cell
\* is made for a slot an open cell already captures, two open cells never name
\* the same slot, and a value written through one closure is the value read
\* through the other.
UpvalueSharing ==
    /\ \A c \in DOMAIN written : ~written[c].dup
    /\ \A c, d \in DOMAIN up_values :
          (up_values[c].open /\ up_values[d].open /\ up_values[c].idx = up_values[d].idx)
             => c = d
    /\ (ev.kind = "getupvalue" /\ written[ev.cell].writer # 0)
          => Last(stack) = written[ev.cell].val

UpvalueSharingWitness ==
    /\ ev.kind = "getupvalue"
    /\ written[ev.cell].writer # 0
    /\ written[ev.cell].writer # Cur.closure
    /\ \E i \in DOMAIN closures[written[ev.cell].writer].up_values :
          closures[written[ev.cell].writer].up_values[i] = ev.cell
    /\ Last(stack) # stack[Len(stack) - 1]

\* C4, as stated: when a handler catches, the stack depth on resumption equals the
\* depth recorded when its AppendHandler executed.
HandlerUnwindingDepthAsStated ==
    ev.kind = "catch" => Len(stack) = ev.saved

\* C4: when a handler catches, the stack is cut back to the depth recorded when
\* its AppendHandler executed and the thrown value is pushed: the depth on
\* resumption is the recorded depth plus one, at the handler's address.
HandlerUnwindingDepth ==
    ev.kind = "catch" =>
       /\ Len(stack) = ev.saved + 1
       /\ status = "running"
       /\ Cur.ip = ev.ip

HandlerUnwindingDepthWitness ==
    /\ ev.kind = "catch"
    /\ ev.entries >= 1
    /\ ev.saved >= 2
    /\ Len(stack) = ev.saved + 1

\* C5, as stated: a throw caught by the nearest handler, k frames up from the
\* throwing frame, reaches the handler with exactly k backtrace entries.
HandlerUnwindingBacktrace ==
    ev.kind = "catch" => (ev.k >= 0 /\ ev.entries = ev.k)

\* C6, as stated: an illegal operation detected by the VM in a frame that holds a
\* handler transfers control to that frame's innermost handler, with the error
\* value on the stack, exactly as a Throw instruction would.
VmErrorsCatchable ==
    (ev.kind = "vmerror" /\ ev.flag) =>
       /\ status = "running"
       /\ Len(frames) = ev.depth
       /\ Cur.ip = ev.ip
       /\ Len(stack) = ev.saved + 1
       /\ is_string(Last(stack))

\* C7: a Call with argc arguments on a closure of arity Fixed(n) throws when
\* argc # n, and of arity Variadic(n) throws when argc < n, before any
\* instruction of the callee runs, and the thrown message names n and argc;
\* otherwise the callee's frame starts at its first instruction.
ArityEnforcement ==
    ev.op = "Call" =>
       IF \/ (ev.arity.kind = "Fixed" /\ ev.argc # ev.arity.n)
          \/ (ev.arity.kind = "Variadic" /\ ev.argc < ev.arity.n)
       THEN /\ status = "unwinding"
            /\ Len(frames) = ev.depth - 1
            /\ is_string(err.value)
            /\ err.value.s =
                  (IF ev.arity.kind = "Fixed" THEN "expected " ELSE "expected at least ")
                  \o NatToString(ev.arity.n) \o " arguments but got " \o NatToString(ev.argc)
                  \o (IF ev.arity.kind = "Fixed" THEN " insteadd" ELSE " instead")
            /\ Len(err.backtrace) = 1
            /\ err.backtrace[1].token = thrown.site
            /\ Len(stack) = ev.pre
       ELSE /\ status = "running"
            /\ Len(frames) = ev.depth + 1
            /\ Cur.closure = ev.id
            /\ Cur.ip = 0
            /\ Cur.slots = ev.pre - ev.argc - 1

ArityEnforcementWitness ==
    /\ ev.op = "Call"
    /\ status = "unwinding"
    /\ ev.arity.kind = "Fixed"
    /\ ev.argc < ev.arity.n

\* C8, as stated: Get and Set on a list of length n with an integer key i reach
\* element i when 0 <= i < n and element n + i when -n <= i < 0; for every other
\* integer both throw, and a throwing Set leaves the list unchanged.
ListIndexNormalisation ==
    ev.op \in {"Get", "Set"} =>
       LET n == Len(ev.items)
           i == ev.key
           j == IF i < 0 THEN n + i ELSE i
       IN IF -n <= i /\ i < n
          THEN /\ status = "running"
               /\ IF ev.op = "Get"
                  THEN Last(stack) = ev.items[j + 1] /\ lists[ev.id] = ev.items
                  ELSE lists[ev.id] = [ev.items EXCEPT ![j + 1] = ev.val]
          ELSE /\ status = "unwinding"
               /\ lists[ev.id] = ev.items

\* C9: a throw that no frame handles ends Vm::run with an error whose backtrace
\* has one entry per closure frame unwound, from the throw site outward, and
\* whose reported position is entry 0, the throwing instruction; while it
\* unwinds no instruction executes.
UnhandledThrow ==
    /\ (status = "error" /\ thrown.k = -1) =>
          /\ frames = <<>>
          /\ err.backtrace = thrown.expected
          /\ Len(err.backtrace) = thrown.depth
          /\ reported = thrown.site
          /\ reported = err.backtrace[1].token
    /\ (status = "unwinding" /\ thrown.k = -1) =>
          /\ ev.kind \in {"throw", "vmerror", "propagate"}
          /\ err.backtrace = SubSeq(thrown.expected, 1, thrown.depth - Len(frames))

UnhandledThrowWitness ==
    /\ status = "error"
    /\ thrown.k = -1
    /\ ~thrown.vm
    /\ Len(err.backtrace) = MaxDepth + 1

(***************************************************************************)
(* Properties of the expression parser, checked under SpecParser.          *)
(***************************************************************************)
\* the levels of the binary operators, tightest first
Level(typ) ==
    CASE typ \in {"Star", "Slash", "Percent"} -> 1
      [] typ \in {"Plus", "Minus"} -> 2
      [] typ \in {"Greater", "GreaterEqual", "Less", "LessEqual"} -> 3
      [] typ \in {"DEqual", "BangEqual"} -> 4
      [] typ = "And" -> 5
      [] typ = "Or" -> 6
      [] typ = "Equal" -> 7

\* how many groups are open around position i
ParenDepth(i) ==
    Cardinality({k \in 1..(i - 1) : tokens[k] = "OParen"})
       - Cardinality({k \in 1..(i - 1) : tokens[k] = "CParen"})

\* the positions lo..hi that are not parentheses, in order
PlainIn(lo, hi) ==
    LET S == {i \in lo..hi : tokens[i] \notin {"OParen", "CParen"}}
    IN [k \in 1..Cardinality(S) |-> CHOOSE i \in S : Cardinality({j \in S : j < i}) = k - 1]

RECURSIVE Nodes(_)
Nodes(e) == {e} \cup UNION {Nodes(e.kids[i]) : i \in DOMAIN e.kids}

RECURSIVE InOrder(_)
InOrder(e) ==
    IF e.kind = "Binary" THEN InOrder(e.kids[1]) \o <<e.tok.pos>> \o InOrder(e.kids[2])
    ELSE <<e.tok.pos>>

BinaryNodes == {n \in Nodes(parsed.expr) : n.kind = "Binary"}
BinaryAt(pos) == CHOOSE n \in BinaryNodes : n.tok.pos = pos
OperatorPositions == {i \in DOMAIN tokens : tokens[i] \in BinaryTypes}

\* two operators of one group with a single operand, plain or parenthesised, between them
Adjacent(x, y) ==
    /\ x < y
    /\ ParenDepth(x) = ParenDepth(y)
    /\ \A m \in (x + 1)..(y - 1) :
          /\ ParenDepth(m) >= ParenDepth(x)
          /\ m \in OperatorPositions => ParenDepth(m) > ParenDepth(x)

\* an opening parenthesis and the parenthesis that closes it
MatchingParens ==
    {g \in (DOMAIN tokens) \X (DOMAIN tokens) :
        /\ g[1] < g[2]
        /\ tokens[g[1]] = "OParen" /\ tokens[g[2]] = "CParen"
        /\ ParenDepth(g[2]) = ParenDepth(g[1]) + 1
        /\ \A m \in (g[1] + 1)..(g[2] - 1) :
              tokens[m] = "CParen" => ParenDepth(m) > ParenDepth(g[1]) + 1}

Tok(typ, pos) == [typ |-> typ, pos |-> pos]
Num(pos) == ExprLiteral("Number", Tok("Number", pos), <<>>)
Tree1 == ExprBinary(Tok("Plus", 2), Num(1), ExprBinary(Tok("Star", 4), Num(3), Num(5)))
Tree2 ==
    ExprBinary(Tok("Or", 6),
               ExprBinary(Tok("And", 4),
                          ExprBinary(Tok("DEqual", 2), Num(1), Num(3)),
                          ExprLiteral("Bool", Tok("True", 5), <<>>)),
               ExprLiteral("Bool", Tok("False", 7), <<>>))
Tree3 == ExprBinary(Tok("Star", 6), ExprBinary(Tok("Plus", 3), Num(2), Num(4)), Num(7))

\* C10: in a parsed expression mixing binary operators, the operands and
\* operators keep their textual order, a Binary directly under a Binary of the
\* same group is of the same or a tighter level, of two neighbouring operators
\* of different levels the tighter one is nested inside the looser one, and
\* every parenthesised sub-expression is one operand (one subtree); an
\* expression without `=` always parses; `1 + 2 * 3` is (+ 1 (* 2 3)),
\* `4 == 4 && true || false` is (|| (&& (== 4 4) true) false) and
\* `(1 + 2) * 3` is (* (+ 1 2) 3).
BinaryPrecedence ==
    (parsed.done /\ tokens \in BinaryInputs \cup {Example1, Example2, Example3}) =>
       /\ (\A i \in DOMAIN tokens : tokens[i] # "Equal") => parsed.ok
       /\ parsed.ok =>
             /\ parsed.cur = Len(tokens) + 1
             /\ InOrder(parsed.expr) = PlainIn(1, Len(tokens))
             /\ \A n \in BinaryNodes : \A i \in 1..2 :
                   n.kids[i].kind = "Binary" =>
                      /\ ParenDepth(n.kids[i].tok.pos) >= ParenDepth(n.tok.pos)
                      /\ ParenDepth(n.kids[i].tok.pos) = ParenDepth(n.tok.pos)
                            => Level(n.kids[i].tok.typ) <= Level(n.tok.typ)
             /\ \A x, y \in OperatorPositions :
                   Adjacent(x, y) =>
                      /\ Level(tokens[x]) < Level(tokens[y])
                            => BinaryAt(x) \in Nodes(BinaryAt(y))
                      /\ Level(tokens[y]) < Level(tokens[x])
                            => BinaryAt(y) \in Nodes(BinaryAt(x))
             /\ \A g \in MatchingParens :
                   \E n \in Nodes(parsed.expr) : InOrder(n) = PlainIn(g[1] + 1, g[2] - 1)
       /\ tokens = Example1 => (parsed.ok /\ parsed.expr = Tree1)
       /\ tokens = Example2 => (parsed.ok /\ parsed.expr = Tree2)
       /\ tokens = Example3 => (parsed.ok /\ parsed.expr = Tree3)

BinaryPrecedenceWitness ==
    /\ parsed.done /\ parsed.ok
    /\ tokens \in BinaryInputs
    /\ \E g \in MatchingParens : g[2] < Len(tokens)
    /\ \E n \in BinaryNodes :
          /\ n.kids[1].kind = "Binary" /\ n.kids[2].kind = "Binary"
          /\ ParenDepth(n.kids[1].tok.pos) > ParenDepth(n.tok.pos)
          /\ Level(n.kids[1].tok.typ) > Level(n.tok.typ)
          /\ ParenDepth(n.kids[2].tok.pos) = ParenDepth(n.tok.pos)
          /\ Level(n.kids[2].tok.typ) < Level(n.tok.typ)

(***************************************************************************)
(* Properties of both expression parsers, checked under SpecQParser.       *)
(***************************************************************************)
Var(pos) == ExprVariable(Tok("Identifier", pos))
ByParseExpr == ast.done /\ ast.by = "parse_expr"
ByParse == ast.done /\ ast.by = "parse"

\* ((x1 op x2) op x3) ... over the first k operators of the input
RECURSIVE LeftTree(_)
LeftTree(k) ==
    IF k = 0 THEN Var(1) ELSE ExprBinary(TokenAt(2 * k), LeftTree(k - 1), Var(2 * k + 1))

\* (xi op (... op xn)) from operator i on
RECURSIVE RightTree(_)
RightTree(i) ==
    IF 2 * i > Len(tokens) THEN Var(2 * i - 1)
    ELSE ExprBinary(TokenAt(2 * i), Var(2 * i - 1), RightTree(i + 1))

AssocTree == IF tokens[2] = "Equal" THEN RightTree(1) ELSE LeftTree((Len(tokens) - 1) \div 2)

\* C11: a chain of binary operators of one precedence level other than `=`
\* parses, in both parsers, to the tree nested to the left, and a chain of `=`
\* to the tree nested to the right; `1 + 2 + 3` is (+ (+ 1 2) 3) and
\* `x = y = z` is (= x (= y z)).
Associativity ==
    /\ tokens \in AssocInputs =>
          /\ parsed.done => (parsed.ok /\ parsed.expr = AssocTree)
          /\ ByParseExpr => (ast.ok /\ ast.errs = <<>> /\ ast.nodes = <<AssocTree>>)
    /\ tokens = <<"Number", "Plus", "Number", "Plus", "Number">> =>
          /\ parsed.done =>
                parsed.expr = ExprBinary(Tok("Plus", 4),
                                         ExprBinary(Tok("Plus", 2), Num(1), Num(3)), Num(5))
          /\ ByParseExpr =>
                ast.nodes = <<ExprBinary(Tok("Plus", 4),
                                         ExprBinary(Tok("Plus", 2), Num(1), Num(3)), Num(5))>>
    /\ tokens = <<"Identifier", "Equal", "Identifier", "Equal", "Identifier">> =>
          /\ parsed.done =>
                parsed.expr = ExprBinary(Tok("Equal", 2), Var(1),
                                         ExprBinary(Tok("Equal", 4), Var(3), Var(5)))
          /\ ByParseExpr =>
                ast.nodes = <<ExprBinary(Tok("Equal", 2), Var(1),
                                         ExprBinary(Tok("Equal", 4), Var(3), Var(5)))>>

AssociativityWitness ==
    /\ parsed.done /\ parsed.ok
    /\ ByParseExpr /\ ast.ok
    /\ tokens \in AssocInputs
    /\ Len(tokens) = 2 * MaxChain + 1
    /\ tokens[2] = "Minus" /\ tokens[4] = "Plus"
    /\ parsed.expr.kids[1].kind = "Binary"
    /\ ast.nodes[1].kids[1].kids[1].kind = "Binary"

\* the postfix forms applied one after another to the operand: Call and Get nodes
RECURSIVE Spine(_)
Spine(e) == IF e.kind \in {"Call", "Get"} THEN 1 + Spine(e.kids[1]) ELSE 0
RECURSIVE SpineBase(_)
SpineBase(e) == IF e.kind \in {"Call", "Get"} THEN SpineBase(e.kids[1]) ELSE e

PostfixCount == Cardinality({i \in DOMAIN tokens : tokens[i] \in {"OParen", "Period", "OBracket"}})
HasTail == Len(tokens) > 3 /\ tokens[Len(tokens) - 1] \in BinaryTypes

\* the expected form of the parse of <prefix> x <postfix forms> [op y]
PrefixPostfixShape(e) ==
    LET u == IF HasTail THEN e.kids[1] ELSE e
    IN /\ HasTail => /\ e.kind = "Binary"
                     /\ e.tok.pos = Len(tokens) - 1
                     /\ e.kids[2] = Var(Len(tokens))
       /\ u.kind = "Unary" /\ u.tok.pos = 1
       /\ Spine(u.kids[1]) = PostfixCount
       /\ SpineBase(u.kids[1]) = Var(2)

\* C12: for a prefix operator applied to an operand that carries postfix forms
\* (calls, `.name`, `[key]`), optionally followed by an infix operator and a
\* second operand, both parsers give a Unary whose operand is the whole run of
\* postfix forms, and that Unary is the left operand of the infix operator;
\* `-f(3, 2).x` is a Unary of a Get of a Call and `-a * b` is (* (- a) b).
PrefixPostfixBinding ==
    /\ tokens \in PrefixInputs =>
          /\ parsed.done =>
                /\ (\A i \in DOMAIN tokens : tokens[i] # "Equal") => parsed.ok
                /\ parsed.ok => PrefixPostfixShape(parsed.expr)
          /\ ByParseExpr =>
                /\ (\A i \in DOMAIN tokens : tokens[i] # "Equal") => (ast.ok /\ ast.errs = <<>>)
                /\ (ast.ok /\ ast.errs = <<>>) => PrefixPostfixShape(ast.nodes[1])
    /\ tokens = <<"Minus", "Identifier", "OParen", "Number", "Comma", "Number", "CParen",
                  "Period", "Identifier">> =>
          /\ parsed.done =>
                parsed.expr =
                   ExprUnary(Tok("Minus", 1),
                             ExprGet(Tok("Period", 8),
                                     ExprCall(Tok("OParen", 3), Var(2), <<Num(4), Num(6)>>),
                                     Var(9)))
          /\ ByParseExpr =>
                /\ ast.ok
                /\ ast.nodes[1].kind = "Unary"
                /\ ast.nodes[1].kids[1].kind = "Get"
                /\ ast.nodes[1].kids[1].kids[1] =
                      ExprCall(Tok("OParen", 3), Var(2), <<Num(4), Num(6)>>)
    /\ tokens = <<"Minus", "Identifier", "Star", "Identifier">> =>
          /\ parsed.done =>
                parsed.expr = ExprBinary(Tok("Star", 3), ExprUnary(Tok("Minus", 1), Var(2)), Var(4))
          /\ ByParseExpr =>
                ast.nodes = <<ExprBinary(Tok("Star", 3), ExprUnary(Tok("Minus", 1), Var(2)),
                                         Var(4))>>

PrefixPostfixBindingWitness ==
    /\ parsed.done /\ parsed.ok
    /\ ByParseExpr /\ ast.ok
    /\ tokens \in PrefixInputs
    /\ HasTail /\ tokens[Len(tokens) - 1] = "Star"
    /\ PostfixCount = MaxPostfix
    /\ tokens[3] = "OParen"
    /\ ast.nodes[1].kids[1].kids[1].kind = "Get"
    /\ parsed.expr.kids[1].kids[1].kids[1].kind = "Call"

\* the running input is a op b = c, with op a binary operator other than `=`
IsOpAssign == tokens \in LvalueInputs /\ Len(tokens) > 5

\* C13: parse_expr on `a op b = c` (op a binary operator other than `=`; a and
\* b variables, literals or `.`-property accesses) returns Err in both parsers
\* and its first diagnostic is the invalid right-hand side; `x = 3` parses as
\* an assignment and `x.y = 3` as a Set.
LvalueRules ==
    /\ IsOpAssign =>
          /\ parsed.done =>
                /\ ~parsed.ok
                /\ parsed.errs # <<>>
                /\ parsed.errs[1].msg = "the right-hand side is invalid"
          /\ ByParseExpr =>
                /\ ~ast.ok
                /\ ast.errs # <<>>
                /\ ast.errs[1].kind = "InvalidRhs"
    /\ tokens = <<"Identifier", "Equal", "Number">> =>
          /\ parsed.done =>
                (parsed.ok /\ parsed.expr = ExprBinary(Tok("Equal", 2), Var(1), Num(3)))
          /\ ByParseExpr =>
                (ast.ok /\ ast.errs = <<>>
                    /\ ast.nodes = <<ExprBinary(Tok("Equal", 2), Var(1), Num(3))>>)
    /\ tokens = <<"Identifier", "Period", "Identifier", "Equal", "Number">> =>
          /\ parsed.done =>
                /\ parsed.ok
                /\ parsed.expr.kind = "Set"
                /\ parsed.expr.kids[1] = Var(1)
                /\ parsed.expr.kids[3] = Num(5)
          /\ ByParseExpr =>
                /\ ast.ok /\ ast.errs = <<>>
                /\ ast.nodes[1].kind = "Set"
                /\ ast.nodes[1].kids[1] = Var(1)
                /\ ast.nodes[1].kids[3] = Num(5)

\* the left operand of the running input L = R, and the forms of L that are lambdas
LeftOperand == SubSeq(tokens, 1, Len(tokens) - 2)
Lambdas == {l \in NotAssignable : Head(l) \in {"Pipe", "Or"}}

\* C14: for L = R with L neither a bare variable nor a Get (a literal, a call,
\* a unary expression, a parenthesised expression, a lambda) the parser records
\* an invalid right-hand side error; the older parser, which has no lambdas, is
\* held to it for the other forms.
AssignmentValidity ==
    tokens \in AssignInputs /\ LeftOperand \in NotAssignable =>
        /\ (parsed.done /\ LeftOperand \notin Lambdas) =>
              \E i \in DOMAIN parsed.errs : parsed.errs[i].msg = "the right-hand side is invalid"
        /\ ByParseExpr => \E i \in DOMAIN ast.errs : ast.errs[i].kind = "InvalidRhs"

\* C15: parse returns Ok exactly when no error was recorded during the whole
\* input, and then with every declaration it parsed; every declaration that
\* failed, and so is missing from the result, recorded an error of its own
\* before parse went on, so an Ok result has no failed declaration behind it.
ParseOkIffNoError ==
    ByParse =>
        /\ ast.ok <=> ast.errs = <<>>
        /\ \A k \in DOMAIN ast.failed : ast.failed[k].errs > ast.failed[k].before
        /\ ast.ok => (ast.failed = <<>> /\ ast.nodes = ast.decls)
        /\ ~ast.ok => ast.nodes = <<>>

ParseOkIffNoErrorWitness ==
    /\ ByParse
    /\ ~ast.ok
    /\ Len(ast.failed) >= 2
    /\ ast.decls # <<>>
    /\ Len(ast.errs) >= 2

\* the running input is a declaration that fails, newlines, and a second declaration
\* that begins at token Second
IsRecoveryOf(bad, sep, second) == tokens = bad \o sep \o second
Second(bad, sep) == Len(bad) + Len(sep) + 1

\* sync left `current` on the first boundary token, or EOF, met from where the
\* failed declaration stopped, and parse took up declarations there
ResumesAtBoundary(k) ==
    /\ ast.resumed[k] >= ast.failed[k].left
    /\ TokenAt(ast.resumed[k]).typ \in BOUNDARIES
    /\ \A i \in ast.failed[k].left .. (ast.resumed[k] - 1) : TokenAt(i).typ \notin BOUNDARIES
    /\ \/ ast.resumed[k] > Len(tokens)
       \/ ast.resumed[k] \in {ast.starts[j] : j \in DOMAIN ast.starts}
       \/ \E j \in DOMAIN ast.failed : ast.failed[j].begun = ast.resumed[k]

\* C16: after a declaration fails, parse discards tokens up to the first
\* boundary token or EOF, leaves that token unconsumed and resumes there; so
\* a well-formed declaration that follows a failed one is parsed, and an
\* error in a declaration that follows a failed one is reported.
ErrorRecovery ==
    ByParse =>
        /\ \A k \in DOMAIN ast.failed : ResumesAtBoundary(k)
        /\ \A bad \in BadDecls, sep \in Separators :
              /\ \A good \in GoodDecls :
                    IsRecoveryOf(bad, sep, good) =>
                        Second(bad, sep) \in {ast.starts[j] : j \in DOMAIN ast.starts}
              /\ \A worse \in BadDecls :
                    IsRecoveryOf(bad, sep, worse) =>
                        \E i \in DOMAIN ast.errs : ast.errs[i].token.pos >= Second(bad, sep)

\* parse_expr failed and its first diagnostic is this one: the message of the
\* older parser, the expected token type of the newer one
FailsWith(msg, typ) ==
    /\ parsed.done =>
          /\ ~parsed.ok
          /\ parsed.errs # <<>>
          /\ parsed.errs[1].msg = msg
    /\ ByParseExpr =>
          /\ ~ast.ok
          /\ ast.errs # <<>>
          /\ ast.errs[1].kind = "ExpectedInstead"
          /\ ast.errs[1].expected = <<typ>>

\* C17: parse_expr fails, in both parsers, with as first diagnostic: the
\* expected `]` for a list that is not closed; the expected `}` for an object
\* that is not closed or whose properties are not separated by a comma; the
\* expected property name where a property begins with no identifier or
\* nothing follows a trailing comma; the expected `:` for a property name with
\* no colon after it.
CollectionDiagnostics ==
    /\ tokens \in UnclosedLists => FailsWith("expected ']' after the list", "CBracket")
    /\ tokens \in UnclosedObjects => FailsWith("expected '}' after the list", "CBrace")
    /\ tokens \in NamelessProperties => FailsWith("expected a property name", "Identifier")
    /\ tokens \in ColonlessProperties => FailsWith("expected ':' after the name", "Colon")

\* the kinds of a sequence of nodes
Kinds(nodes) == [i \in DOMAIN nodes |-> nodes[i].kind]

\* the input is one of the statements of the test suite, on one line or on several
IsStml(t) == tokens = t \/ tokens = Lines(t)

\* C18: parse returns Ok, with no error recorded, for the statements of
\* tests::parsing_stmls, their statements separated by spaces or by newlines: a
\* function whose body is a return of an expression followed by a throw, an
\* if/else, a while and a loop holding a call, continue and break, a
\* try/catch with a bound name, and a bare block; each gives the declaration
\* of its kind with the statements of its body in order.
StatementsParse ==
    ByParse =>
        /\ (\E t \in StmlTests : IsStml(t)) =>
              (ast.ok /\ ast.errs = <<>> /\ ast.failed = <<>> /\ ast.cur = Len(tokens) + 1)
        /\ IsStml(StmlFunction) =>
              /\ Kinds(ast.nodes) = <<"FunctionDecl">>
              /\ Kinds(ast.nodes[1].kids) = <<"Name", "Params", "Block">>
              /\ Kinds(ast.nodes[1].kids[3].kids) = <<"Return", "Throw">>
              /\ Kinds(ast.nodes[1].kids[3].kids[1].kids) = <<"Binary">>
        /\ IsStml(StmlIfElse) =>
              /\ Kinds(ast.nodes) = <<"IfElse">>
              /\ Kinds(ast.nodes[1].kids) = <<"Binary", "Block", "Block">>
        /\ IsStml(StmlLoops) =>
              /\ Kinds(ast.nodes) = <<"While", "Loop">>
              /\ Kinds(ast.nodes[1].kids) = <<"Bool", "Block">>
              /\ Kinds(ast.nodes[2].kids[1].kids) = <<"Expr", "Continue", "Break">>
        /\ IsStml(StmlTryCatch) =>
              /\ Kinds(ast.nodes) = <<"TryCatch">>
              /\ Kinds(ast.nodes[1].kids) = <<"Block", "Name", "Block">>
        /\ IsStml(StmlBlock) =>
              /\ Kinds(ast.nodes) = <<"Block">>
              /\ Kinds(ast.nodes[1].kids) = <<"Expr">>

StatementsParseWitness ==
    /\ ByParse
    /\ tokens = StmlLoops
    /\ ast.ok
    /\ Len(ast.nodes) = 2
    /\ ast.nodes[2].kids[1].kids[3].kind = "Break"

(***************************************************************************)
(* Properties of Get and Set by the kind of the container.                 *)
(***************************************************************************)
\* the Get or Set just executed was given a container of one of these kinds
Indexed(kinds) == ev.index.op # "" /\ ev.index.obj.t \in kinds
\* it threw: the frame is left with an error value, no list or object changed
ThrewUnchanged ==
    /\ status = "unwinding"
    /\ err.value.t = "string"
    /\ lists = ev.index.lists
    /\ objects = ev.index.objects

\* C19: Get or Set on an object with a key that is no string throws; Get with
\* a string key throws if the object has no such property and pushes the stored
\* value if it has; Set with a string key makes the property hold the value,
\* inserting it if absent, and changes no other property and no other object.
ObjectIndexing ==
    Indexed({"object"}) =>
        LET x == ev.index
            before == x.objects[x.obj.n]
        IN IF ~is_string(x.key) THEN ThrewUnchanged
           ELSE IF x.op = "Get"
           THEN IF x.key.s \in DOMAIN before
                THEN /\ status = "running"
                     /\ Last(stack) = before[x.key.s]
                     /\ objects = x.objects
                ELSE ThrewUnchanged
           ELSE /\ status = "running"
                /\ DOMAIN objects[x.obj.n] = DOMAIN before \cup {x.key.s}
                /\ objects[x.obj.n][x.key.s] = x.val
                /\ \A n \in DOMAIN before \ {x.key.s} : objects[x.obj.n][n] = before[n]
                /\ \A o \in DOMAIN objects : o # x.obj.n => objects[o] = x.objects[o]
                /\ lists = x.lists

ObjectIndexingWitness ==
    /\ Indexed({"object"})
    /\ ev.index.op = "Set"
    /\ status = "running"
    /\ ev.index.key.s \in DOMAIN ev.index.objects[ev.index.obj.n]
    /\ Cardinality(DOMAIN objects[ev.index.obj.n]) = MaxLen
    /\ objects[ev.index.obj.n][ev.index.key.s] # ev.index.objects[ev.index.obj.n][ev.index.key.s]

\* C20: Set on a string throws; Get on a string of n characters with an
\* integer key i, -n <= i < n, pushes the one-character string at index i, or
\* n + i for a negative i; Get and Set on a value that is no string, list or
\* object throw, and no list or object is changed.
ContainerKinds ==
    /\ (Indexed({"string"}) /\ ev.index.op = "Set") => ThrewUnchanged
    /\ (Indexed({"string"}) /\ ev.index.op = "Get" /\ is_int(ev.index.key)) =>
          LET n == Len(chars(ev.index.obj.s))
              i == as_int(ev.index.key)
              j == IF i < 0 THEN n + i ELSE i
          IN (-n <= i /\ i < n) =>
                /\ status = "running"
                /\ Last(stack) = String(chars(ev.index.obj.s)[j + 1])
                /\ Len(chars(Last(stack).s)) = 1
                /\ lists = ev.index.lists /\ objects = ev.index.objects
    /\ Indexed(OtherKinds) => ThrewUnchanged

ContainerKindsWitness ==
    /\ Indexed({"string"})
    /\ ev.index.op = "Get"
    /\ ev.index.key = Number(-1)
    /\ status = "running"
    /\ Last(stack) = String("b")

(***************************************************************************)
(* Properties of arithmetic and of the global table.                       *)
(***************************************************************************)
BothNumbers == is_number(ev.arith.a) /\ is_number(ev.arith.b)
EitherString == is_string(ev.arith.a) \/ is_string(ev.arith.b)

\* C21: Add pushes the concatenation when either operand is a string and the
\* sum when both are numbers; for every other pair of operands it throws, as
\* Subtract, Multiply, Divide and Remainder do for operands that are not two
\* numbers.
AddTyping ==
    /\ ev.arith.op = "Add" =>
          IF EitherString
          THEN /\ status = "running"
               /\ Last(stack) = String(to_string(ev.arith.a) \o to_string(ev.arith.b))
          ELSE IF BothNumbers
          THEN /\ status = "running"
               /\ Last(stack) = NumAdd(ev.arith.a, ev.arith.b)
               /\ (ev.arith.a.d = 1 /\ ev.arith.b.d = 1) =>
                     Last(stack) = Number(ev.arith.a.n + ev.arith.b.n)
          ELSE status = "unwinding" /\ err.value.t = "string"
    /\ (ev.arith.op \in {"Subtract", "Multiply", "Divide", "Remainder"} /\ ~BothNumbers) =>
          (status = "unwinding" /\ err.value.t = "string")

\* the global table `before` with `name` bound to `value`
Bound(before, name, value) ==
    [n \in DOMAIN before \cup {name} |-> IF n = name THEN value ELSE before[n]]

GlobalThrew == status = "unwinding" /\ err.value.t = "string" /\ globals = ev.glob.before

\* C22: DefineGlobal binds a name that is absent and throws for one that is
\* present, every native's name included; SetGlobal and GetGlobal throw for an
\* absent name, SetGlobal rebinds a present one and creates none, GetGlobal
\* pushes the bound value; a global instruction that throws leaves the table
\* as it was.
GlobalDiscipline ==
    LET g == ev.glob
        present == g.name \in DOMAIN g.before
    IN /\ Natives \subseteq DOMAIN globals
       /\ g.op = "DefineGlobal" =>
             IF present THEN GlobalThrew
             ELSE status = "running" /\ globals = Bound(g.before, g.name, g.value)
       /\ g.op = "SetGlobal" =>
             IF ~present THEN GlobalThrew
             ELSE /\ status = "running"
                  /\ globals = Bound(g.before, g.name, g.value)
                  /\ DOMAIN globals = DOMAIN g.before
       /\ g.op = "GetGlobal" =>
             IF ~present THEN GlobalThrew
             ELSE /\ status = "running"
                  /\ globals = g.before
                  /\ Last(stack) = g.before[g.name]

\* a script has defined "g", and a later DefineGlobal of a native's name threw
GlobalDisciplineWitness ==
    /\ ev.glob.op = "DefineGlobal"
    /\ ev.glob.name \in Natives
    /\ "g" \in DOMAIN ev.glob.before
    /\ GlobalThrew

(***************************************************************************)
(* Properties of collections as shared references.                         *)
(***************************************************************************)
\* the element of the collection `v` under `key`, in the heap as it is now
ElementOf(v, key) ==
    IF v.t = "list" THEN lists[v.n][as_int(key) + 1] ELSE objects[v.n][key.s]

\* C23: a list or object copied by GetLocal, GetGlobal, GetUpValue or passed
\* as an argument is the collection it was copied from: whichever copy a Set
\* goes through, a later Get through any other copy pushes the value set.
CollectionAliasing ==
    functions \in AliasPrograms =>
        /\ Len(lists) + Len(objects) <= 1
        /\ ev.index.op \in {"Get", "Set"} =>
              /\ status = "running"
              /\ ev.index.obj = stack[2]
              /\ ElementOf(stack[2], ev.index.key) = AliasValue
        /\ ev.index.op = "Get" => Last(stack) = AliasValue

\* a closure over the local has read, through its upvalue, the element that
\* was set through the global
CollectionAliasingWitness ==
    /\ functions = AliasProgram("list", "global", "upvalue")
    /\ ev.index.op = "Get"
    /\ Len(frames) = 2
    /\ Last(stack) = AliasValue

(***************************************************************************)
(* Properties of handlers.  ev.hs is the handler stack of the frame that   *)
(* was current before the step, ev.frame that frame's depth, ev.stk the    *)
(* stack before a catch.                                                   *)
(***************************************************************************)
Caught == ev.kind = "catch"
LeftFrame == ev.kind \in {"throw", "propagate"}

\* C24: a Throw, or a throw coming out of a callee, is caught by the handler
\* appended last and not yet popped in the current frame, and the catch removes
\* that handler, so a throw in the catch block meets the handlers below it only;
\* the throw leaves the frame for its caller only when the frame has no handler.
HandlerSelection ==
    /\ Caught =>
          /\ ev.hs # <<>>
          /\ Len(frames) = ev.frame
          /\ [slots |-> ev.saved, ip |-> ev.ip] = Last(ev.hs)
          /\ Cur.handlers = Front(ev.hs)
          /\ Cur.ip = ev.ip
    /\ LeftFrame =>
          /\ ev.hs = <<>>
          /\ status = "unwinding"
          /\ Len(frames) = ev.frame - 1
    /\ ev.kind = "appendhandler" =>
          /\ Len(frames) = ev.frame
          /\ Front(Cur.handlers) = ev.hs
          /\ Len(Cur.handlers) = Len(ev.hs) + 1
    /\ ev.kind = "pophandler" =>
          /\ Len(frames) = ev.frame
          /\ Cur.handlers = IF ev.hs = <<>> THEN <<>> ELSE Front(ev.hs)

\* the catch block of the inner try threw 2 while the outer try's handler was
\* the only one left, and that handler caught it
HandlerSelectionWitness ==
    /\ functions \in HandlerPrograms
    /\ Caught
    /\ Last(stack) = Number(2)
    /\ Len(ev.hs) = 1
    /\ Cur.handlers = <<>>

\* the handler arm of a Throw or of a Call's Err ended in a panic of the host:
\* the unwrap of close_up_values, or the subtraction of the ips
CatchPanicked == ev.kind \in {"catchunwrap", "overflow"}

\* C25: when a handler (saved length, catch ip) catches the value v, the stack
\* is cut to the saved length and v is pushed on top, the slots below the saved
\* length are as they were, and the frame that owns the handler goes on at the
\* catch ip, the next instruction executed being the one there; the saved
\* length is the length of the stack at AppendHandler.
CatchResumeState ==
    /\ ~CatchPanicked
    /\ Caught =>
          /\ status = "running"
          /\ Len(stack) = ev.saved + 1
          /\ Last(stack) = ev.val
          /\ ev.at = "Throw" => ev.val = Last(ev.stk)
          /\ SubSeq(stack, 1, ev.saved) = SubSeq(ev.stk, 1, ev.saved)
          /\ Len(frames) = ev.frame
          /\ Cur.ip = ev.ip
          /\ Last(ev.hs) = [slots |-> ev.saved, ip |-> ev.ip]
    /\ ev.kind = "appendhandler" => Last(Cur.handlers).slots = Len(stack)

\* the outer handler of a called function caught the 3 thrown by a function it
\* called, two values above three kept slots
CatchResumeStateWitness ==
    /\ functions \in HandlerPrograms
    /\ Caught
    /\ ev.at = "Call"
    /\ Len(frames) = 2
    /\ Last(stack) = Number(3)
    /\ Len(ev.stk) > ev.saved + 1
    /\ ev.saved >= 3

\* C26: the catch ip that AppendHandler records is the ip of the instruction
\* plus the offset held little-endian in its two operand bytes, for every
\* offset, those of 256 and more included.
AppendHandlerOperand ==
    ev.kind = "appendhandler" =>
        Last(Cur.handlers).ip =
            (Cur.ip - 3) + get_chunk(Cur)[Cur.ip - 1] + 256 * get_chunk(Cur)[Cur.ip]

(***************************************************************************)
(* Properties of upvalue cells.                                            *)
(***************************************************************************)
\* C27: when Closure runs in the frame of closure C, an upvalue of the new
\* closure whose descriptor has is_local = false and index i is the cell that
\* is upvalue i of C, whichever function called C.
NonLocalCapture ==
    ev.kind = "closure" =>
        /\ status = "running"
        /\ \A k \in DOMAIN ev.caps :
              ~ev.caps[k].is_local =>
                  /\ ev.caps[k].idx < Len(closures[Cur.closure].up_values)
                  /\ closures[Last(stack).n].up_values[k] =
                        closures[Cur.closure].up_values[ev.caps[k].idx + 1]

\* the cells of the open list before the last step
WereOpen == {ev.shrink.opens[i] : i \in DOMAIN ev.shrink.opens}
NowOpen == {open_up_values[i] : i \in DOMAIN open_up_values}

\* every cell of the open list is Open and points below the top of the stack
OpenCellsOnStack ==
    \A c \in NowOpen : up_values[c].open /\ up_values[c].idx < Len(stack)

\* a step that cut the stack to ev.shrink.cut values closed, with the value its
\* slot held, every open cell at or above the cut, dropped it from the open
\* list, and left the other open cells alone
ClosedAtCut ==
    ev.shrink.cut >= 0 =>
        \A c \in WereOpen :
            IF ev.shrink.cells[c].idx >= ev.shrink.cut
            THEN /\ up_values[c] = Closed(ev.shrink.stk[ev.shrink.cells[c].idx + 1])
                 /\ c \notin NowOpen
            ELSE up_values[c] = ev.shrink.cells[c] /\ c \in NowOpen

\* C28: in every state each cell of the open list is Open and points at a slot
\* below the length of the stack; a Return, a catch or a CloseUpValue that
\* shrinks the stack first closes, with the slot's value, every open cell at or
\* above the new length and removes it from the list.
OpenUpvalueInvariant == OpenCellsOnStack /\ ClosedAtCut

\* C29: a step of a frame changes the handler stack of no frame below it, and
\* a frame starts with no handler; so the handlers that a callee appends and
\* pops are its own, and those it still holds when it returns or is unwound go
\* with its frame and catch no later throw.
HandlersPerFrame ==
    [][\A i \in 1..Len(frames') :
          /\ i > Len(frames) => frames'[i].handlers = <<>>
          /\ i < Len(frames) => frames'[i].handlers = frames[i].handlers
          /\ i = Len(frames) =>
                \/ frames'[i].handlers = frames[i].handlers
                \/ Front(frames'[i].handlers) = frames[i].handlers
                \/ frames'[i].handlers = Front(frames[i].handlers)]_vars

\* a called function has returned while two of its handlers were installed, to
\* a caller whose own handler is in place
HandlersPerFrameWitness ==
    /\ functions \in HandlerPrograms
    /\ ev.kind = "return"
    /\ Len(ev.hs) = 2
    /\ Len(Cur.handlers) = 1

(***************************************************************************)
(* Properties of native callees.  A throw that reaches the Err arm of Call *)
(* with an empty backtrace is a native's: a closure's comes with the entry *)
(* of its own frame.                                                       *)
(***************************************************************************)
NativeCallee == ev.stk[Len(ev.stk) - ev.operand].t = "native"
NativeCaught == Caught /\ ev.at = "Call" /\ ev.entries = 0 /\ NativeCallee
NativePropagated == ev.kind = "propagate" /\ ev.entries = 0 /\ NativeCallee

\* C30: a value thrown by a native is handled by the calling frame as a throw
\* of a called closure is: the frame's innermost handler catches it, the stack
\* cut to the handler's saved length and the value pushed; a frame with no
\* handler hands the throw to its own caller with the entry of the calling
\* frame, at the Call, as the backtrace.
NativeThrows ==
    /\ NativeCaught =>
          /\ status = "running"
          /\ Len(frames) = ev.frame
          /\ Last(ev.hs) = [slots |-> ev.saved, ip |-> ev.ip]
          /\ Cur.handlers = Front(ev.hs)
          /\ Cur.ip = ev.ip
          /\ stack = Append(SubSeq(ev.stk, 1, ev.saved), ev.val)
          /\ is_string(ev.val)
    /\ NativePropagated =>
          /\ status = "unwinding"
          /\ ev.hs = <<>>
          /\ Len(frames) = ev.frame - 1
          /\ is_string(err.value)
          /\ err.backtrace =
                <<[token |-> thrown.site, name |-> functions[thrown.site.fn].name]>>
          /\ functions[thrown.site.fn].code[thrown.site.ip + 1] = "Call"
          /\ thrown.depth = ev.frame

\* a native called two frames deep threw with no handler in its calling frame
NativeThrowsWitness ==
    /\ NativePropagated
    /\ ev.frame >= 2
    /\ status = "unwinding"
    /\ Len(err.backtrace) = 1

(***************************************************************************)
(* Properties of the operand stack across instructions.                    *)
(***************************************************************************)
Returned ==
    (ev.kind = "return" /\ ~ev.flag) =>
        LET idx == ev.pre - ev.argc - 1
        IN /\ status = "running"
           /\ Len(frames) = ev.frame - 1
           /\ ev.shrink.stk[idx + 1].t = "closure"
           /\ stack = Append(SubSeq(ev.shrink.stk, 1, idx), Last(ev.shrink.stk))
           /\ get_chunk(Cur)[Cur.ip - 1] = "Call"
           /\ get_chunk(Cur)[Cur.ip] = ev.argc

\* the caller's truncate ended in the unwrap of close_up_values
ReturnPanicked == ev.kind = "unwrap" /\ ev.at = "Return"

\* C31: after a called closure executes Return with the value v, the caller's
\* stack is the stack below the callee's slot (len - argc - 1 at the Call) with
\* v alone pushed on it, and the caller goes on at the instruction after the
\* Call; no Return ends in the caller's truncate failing.
ReturnPlacement == Returned /\ ~ReturnPanicked

\* a closure called with arguments from a called function returned while it
\* held values above its arguments
ReturnPlacementWitness ==
    /\ ev.kind = "return" /\ ~ev.flag
    /\ ev.argc >= 1
    /\ ev.frame >= 3
    /\ Len(ev.shrink.stk) > ev.pre + 1
    /\ Last(stack) = Last(ev.shrink.stk)

Assigned == status = "running" /\ ev.assign.op # ""

\* C32: SetLocal, SetGlobal, SetUpValue and Set leave the assigned value on top
\* of the stack: SetLocal and SetUpValue keep the depth, SetGlobal pops the
\* name alone, Set pops the key and the container alone; the target holds the
\* value.
AssignmentYieldsValue ==
    Assigned =>
        LET stk == ev.assign.stk
            n == Len(stk)
        IN CASE ev.assign.op = "SetLocal" ->
                   stack = [stk EXCEPT ![ev.assign.target + 1] = Last(stk)]
             [] ev.assign.op = "SetUpValue" ->
                   /\ Last(stack) = Last(stk)
                   /\ IF up_values[ev.assign.target].open
                      THEN stack = [stk EXCEPT ![up_values[ev.assign.target].idx + 1] = Last(stk)]
                      ELSE stack = stk /\ up_values[ev.assign.target].val = Last(stk)
             [] ev.assign.op = "SetGlobal" ->
                   /\ stack = Front(stk)
                   /\ Last(stack) = stk[n - 1]
                   /\ globals[to_string(stk[n])] = stk[n - 1]
             [] OTHER ->
                   /\ stack = SubSeq(stk, 1, n - 2)
                   /\ Last(stack) = stk[n - 2]
                   /\ stk[n - 1].t = "object" => objects[stk[n - 1].n][stk[n].s] = stk[n - 2]
                   /\ stk[n - 1].t = "list" => \E i \in DOMAIN lists[stk[n - 1].n] :
                                                  lists[stk[n - 1].n][i] = stk[n - 2]

\* the chain a = g = o.a = l[0] = 5 has assigned all four from the one value
AssignmentYieldsValueWitness ==
    /\ functions = ChainProgram
    /\ Assigned /\ ev.assign.op = "SetLocal"
    /\ Last(stack) = Number(5)
    /\ stack[2] = Number(5)
    /\ globals["g"] = Number(5)
    /\ objects[1]["a"] = Number(5)
    /\ lists[1][1] = Number(5)

(***************************************************************************)
(* Properties of the newer parser's statements, checked under SpecQParser. *)
(***************************************************************************)
\* the top-level declarations that began at a `return` keyword
ReturnDecls == {k \in DOMAIN ast.decls : TokenAt(ast.starts[k]).typ = "Return"}

\* C33: a `return` keyword immediately followed by a newline parses to a Return
\* statement carrying the keyword token and no expression, and a `return`
\* followed by an expression parses to a Return carrying that expression
\* (a comment between the keyword and the newline is not a token of the line).
BareReturn ==
    ByParse =>
        \A k \in ReturnDecls :
            /\ ast.decls[k].kind = "Return"
            /\ ast.decls[k].tok = TokenAt(ast.starts[k])
            /\ Len(ast.decls[k].kids) =
                   IF TokenAt(NextIdx(ast.starts[k])).typ = "NewLine" THEN 0 ELSE 1

\* the position of the last token a tree holds
RECURSIVE LastPos(_)
LastPosOf(kids) == {LastPos(kids[i]) : i \in DOMAIN kids}
LastPos(node) ==
    CHOOSE m \in {node.tok.pos} \cup LastPosOf(node.kids) :
        \A n \in {node.tok.pos} \cup LastPosOf(node.kids) : n <= m

\* the first line break of the input
FirstNewLine == CHOOSE i \in DOMAIN tokens : tokens[i] = "NewLine" /\ \A j \in 1..(i - 1) : tokens[j] # "NewLine"

\* C34: once a complete operand has been parsed, a newline before the next
\* token ends the expression: an infix or postfix token (`+`, `=`, `(`, `.`,
\* `[`) at the start of the following line is not absorbed, whatever the form of
\* the operand (variable, literal, call, `.name`, `[key]`), and the parser is
\* left on the line break; a newline is skipped where an operand is still
\* required.
NewlineEndsExpr ==
    /\ (ByParseExpr /\ tokens \in BrokenLines) =>
           /\ ast.ok
           /\ LastPos(ast.nodes[1]) < FirstNewLine
           /\ ast.cur = FirstNewLine
    /\ (ByParseExpr /\ tokens \in OpenLines) =>
           /\ ast.ok
           /\ LastPos(ast.nodes[1]) > FirstNewLine
           /\ ast.cur = Len(tokens) + 1

\* where the `=` of a member assignment is, and the tree of all that follows it
SetEqual == CHOOSE i \in DOMAIN tokens : tokens[i] = "Equal" /\ \A j \in 1..(i - 1) : tokens[j] # "Equal"
Operand(pos) == IF TokenAt(pos).typ = "Number" THEN Num(pos) ELSE Var(pos)
WholeValue ==
    IF Len(tokens) = SetEqual + 1 THEN Operand(SetEqual + 1)
    ELSE ExprBinary(TokenAt(SetEqual + 2), Operand(SetEqual + 1), Operand(SetEqual + 3))

SetOfWholeValue(e) ==
    /\ e.kind = "Set"
    /\ e.tok = TokenAt(SetEqual)
    /\ e.kids[1] = Var(1)
    /\ e.kids[2].tok = TokenAt(3)
    /\ e.kids[3] = WholeValue

\* C35: `target.name = V` and `target[key] = V` both parse to Set(target, key, V')
\* with V' the whole right-hand side at assignment precedence, the same for the
\* two forms and in both parsers: `x.y = 1 + 2` is a Set whose value is (+ 1 2),
\* not a Binary `+` whose left operand is a Set.
SetValueExtent ==
    tokens \in SetInputs =>
        /\ parsed.done => parsed.ok /\ SetOfWholeValue(parsed.expr)
        /\ ByParseExpr => ast.ok /\ SetOfWholeValue(ast.nodes[1])

(***************************************************************************)
(* Properties of the list of open upvalues, checked under Spec.            *)
(***************************************************************************)
\* C36: in every state the list of open upvalues holds no Closed cell and at
\* most one cell for each absolute stack slot, so the lookup by slot of Closure
\* and the loop of close_up_values never meet a Closed entry.
OpenListUnique ==
    \A i \in DOMAIN open_up_values :
        /\ up_values[open_up_values[i]].open
        /\ \A j \in DOMAIN open_up_values :
              i # j => up_values[open_up_values[i]].idx # up_values[open_up_values[j]].idx

\* a second closure has captured a slot already in the list and a slot that
\* was not: two open cells, the older one shared by the two closures
OpenListUniqueWitness ==
    /\ ev.kind = "closure"
    /\ Len(open_up_values) = 2
    /\ Len(closures) = 3
    /\ closures[3].up_values = <<open_up_values[2], open_up_values[1]>>
    /\ closures[2].up_values = <<open_up_values[1]>>

(***************************************************************************)
(* Termination of Parser::parse, checked under SpecParseLoop.              *)
(***************************************************************************)
\* the turn that comes next leaves `current` further on in the token stream, or
\* the loop is left
ConsumesToken ==
    ParseStepEnabled =>
        \A next \in {parse_step(parse_state(ast))} : next.done \/ next.cur > ast.cur

\* C37: Parser::parse terminates on every finite token stream: every turn of
\* its declaration loop consumes at least one token, also when the declaration
\* fails and the token it fails on is a boundary token (sync stops at once) or
\* is lexically invalid; the loop ends with the result of parse.
ParseTerminates ==
    /\ []ConsumesToken
    /\ [](ast.done => ast = parse)
    /\ <>ast.done

\* the loop has ended after a declaration that failed on a boundary token, from
\* which sync did not move, and after one that began with an invalid token
ParseTerminatesWitness ==
    /\ ast.done
    /\ \E k \in DOMAIN ast.failed :
          /\ TokenAt(ast.failed[k].left).typ \in BOUNDARIES \ {"EOF"}
          /\ ast.resumed[k] = ast.failed[k].left
    /\ \E k \in DOMAIN ast.failed : TokenAt(ast.failed[k].begun).typ \in INVALID_TYPES

(***************************************************************************)
(* Properties of Vm::run and of Call, checked under Spec.                  *)
(***************************************************************************)
\* C38: Vm::run leaves the operand stack at the depth it had before the call
\* (empty, for a new Vm), on normal completion and on an unhandled throw alike,
\* for a script whose statements leave the stack as they found it.
RunRestoresStack ==
    (functions \in RunPrograms /\ status \in {"done", "error"}) => stack = <<>>

\* C39: a Call whose callee is neither a closure nor a native results in a
\* runtime throw that takes the handler path (the frame's handler catches it, or
\* the frame is left with an error); the VM is not aborted.
NonCallableThrows ==
    ev.kind = "noncallable" =>
        IF ev.hs # <<>> THEN status = "running" ELSE status = "unwinding"

====
